---- MODULE Spec2Model ----
(***************************************************************************)
(* A model of the streaming client of bing-rs.                             *)
(*                                                                         *)
(*   Spec        the Websocket object of src/speech/websocket.rs: its      *)
(*               caller (open, close, audio, config,                       *)
(*               server_event_receiver), the consumer of the caller's      *)
(*               event channel, the transport thread that ws drives        *)
(*               (MyFactory / MyHandler callbacks) and the reset workers   *)
(*               spawned by run().                                         *)
(*   SpecSpeech  Speech::websocket of src/speech/mod.rs: the calling       *)
(*               thread, the transport thread, the outbound worker t1 and  *)
(*               the inbound worker _t2.                                   *)
(*                                                                         *)
(* Option values are numbers: 0 is None, k > 0 is Some(object number k).   *)
(* generate_uuid() is a fresh-number generator: a version 4 UUID is 122    *)
(* random bits, and the model takes two mints never to collide.            *)
(***************************************************************************)
EXTENDS Naturals, Sequences, FiniteSets, TLC

\* Bounds of the model.
MaxOpen == 2
MaxUuid == 2
MaxFrames == 2
MaxQ == 1

VARIABLES
    \* ---- struct Websocket (websocket.rs 28-39) ----
    ws,                 \* self.ws: 0, or the number of the WebSocket not yet run
    ws_thread,          \* self.ws_thread: 0, or the connection whose thread handle is held
    sender,             \* *self.sender: 0, or the connection the ws::Sender belongs to
    server_event_tx,    \* *self.server_event_tx: 0 (None) or 1 (the caller's channel)
    server_event_from_handler_tx,  \* 0, or the number of the handler channel
    server_event_from_handler_rx,  \* 0, or the number of the handler channel
    audio_uuid,         \* *self.audio_uuid: 0, or the correlation id
    \* ---- what lives outside the struct ----
    tstate,             \* per connection, its thread: "none", "connecting", "open", and
                        \* ended: "failed" (before the handshake), "done", "panicked"
    handlerTx,          \* per connection: the handler channel MyFactory / MyHandler cloned
    chan,               \* per handler channel: the events queued in it
    worker,             \* per handler channel: a reset worker (run()) holds its receiver
    callerQ,            \* the events queued in the caller's channel
    rxAlive,            \* the consumer still holds the Receiver of the caller's channel
    nchan, nuuid,       \* open() calls (each makes a handler channel) and uuids so far
    pc,                 \* the caller: "idle", "joining" (inside close), "panicked"
    ok,                 \* close()'s local
    \* ---- observations ----
    last,               \* the caller's last call: its name, what it returned ("Ok", "Err",
                        \* "unit"; "pending" inside close, "panic"), and whether it is
                        \* a close() called right after a close() that returned
    wire,               \* the audio frames the transport accepted, in order
    staleEnds,          \* TurnEnd events in callerQ that were queued before the last audio frame
    turnEndTaken,       \* the consumer took a TurnEnd event received since the last audio frame
    resetDone,          \* a reset worker cleared audio_uuid since the last audio frame
    \* ---- Speech::websocket (mod.rs 92-223) ----
    s_pc,               \* the calling thread: "start", "waiting", "returned", "panicked",
                        \* and "dropped": returned, and the Handle since dropped
    recv_thread,        \* the transport thread: "none", "connecting", "open", "done"
    recv_rx,            \* the recv_tx/recv_rx channel
    send_rx,            \* the send_tx/send_rx channel
    send_thread,        \* t1: "none", "running", "done"
    t2,                 \* _t2: "none", "running", "done"
    s_wire,             \* frames handed to the ws::Sender, in order
    calls,              \* Handler callbacks made, in order
    enq,                \* the ClientEvents sent through send_tx so far, in order
    attempts,           \* t1's calls of protocol.audio so far: the event and the result
    out_log,            \* the ServerEvents sent through thread_out so far, in order
    \* ---- one connection's inbound text frames (websocket.rs 261-303) ----
    lastText,           \* the frame on_message was last called with ("text", with its
                        \* text, or "binary") and how many it was called with so far
    sentLog,            \* the events sent to the caller's channel so far, each with
                        \* the number of the frame it came from
    delivered,          \* the events the consumer has taken so far, in order
    \* ---- Phrase::from_json_value and its two callers ----
    p_value,            \* the serde_json::Value passed in
    p_result,           \* what it returned: a variant, "Err", "panic"; "none" before
    b_body,             \* a phrase body as the service sends it
    b_http,             \* what Speech::recognize made of it ("none" before)
    b_stream,           \* what a speech.phrase frame made of it ("none" before)
    \* ---- the audio frame of Websocket::audio (websocket.rs 221-237) ----
    a_in,               \* the correlation id, the time stamp and the audio of a call
    a_frame,            \* the bytes of the binary message it sent (<<>> before)
    \* ---- the connection URL ----
    u_in,               \* mode, format, custom-speech flag and endpoint id
    u_built,            \* the text of the Url Websocket::build_url returned
    u_uri,              \* the text of the uri Speech::websocket connects to
    \* ---- threads and the Mutexes they share ----
    l_at,               \* per thread: the call it is in and how far it got
    l_held,             \* per Mutex: the thread that holds its guard, or NoThread
    l_sender,           \* *self.sender is Some
    l_uuid              \* *self.audio_uuid is Some

wsVars == <<ws, ws_thread, sender, server_event_tx, server_event_from_handler_tx,
            server_event_from_handler_rx, audio_uuid, tstate, handlerTx, chan, worker,
            callerQ, rxAlive, nchan, nuuid, pc, ok, last, wire, staleEnds, turnEndTaken,
            resetDone>>

speechVars == <<s_pc, recv_thread, recv_rx, send_rx, send_thread, t2, s_wire, calls, enq,
                attempts, out_log>>

encVars == <<a_in, a_frame, u_in, u_built, u_uri>>

lockVars == <<l_at, l_held, l_sender, l_uuid>>

restVars == <<lastText, sentLog, delivered, p_value, p_result, b_body, b_http, b_stream,
              encVars, lockVars>>

vars == <<wsVars, speechVars, restVars>>

\* The connection open() call number n makes, and the handler channel it makes,
\* both carry the number n.
Conns == 1..MaxOpen
Chans == 1..MaxOpen

\* AtomicBool::new(true); no statement of the crate stores to it.
server_event_from_handler_running == TRUE

\* The frames the remote service pushes, by their Path header.
Paths == {"turn.start", "turn.end"}

\* parse_server_message_text's match on the trimmed Path value.
EventOf(path) ==
    CASE path = "turn.start" -> "TurnStart"
      [] path = "turn.end" -> "TurnEnd"
      [] path = "speech.startDetected" -> "SpeechStartDetected"
      [] path = "speech.hypothesis" -> "SpeechHypothesis"
      [] path = "speech.phrase" -> "SpeechPhrase"
      [] path = "speech.endDetected" -> "SpeechEndDetected"
      [] OTHER -> "Unknown"

\* The event loop of connection k still takes commands: ws::Sender::send and
\* ws::Sender::shutdown return Ok exactly then.
Alive(k) == k # 0 /\ tstate[k] \in {"connecting", "open"}

\* A Receiver of handler channel c exists: in the struct, or moved into a worker.
RxHeld(c) == worker[c] \/ server_event_from_handler_rx = c

\* The record of a call.
Done(op, res) == [op |-> op, res |-> res, again |-> FALSE]

\* The thread of connection k has ended.
Ended(k) == tstate[k] \in {"failed", "done", "panicked"}

\* The number of TurnEnd events in a queue.
TurnEnds(q) == Cardinality({i \in 1..Len(q) : q[i] = "TurnEnd"})

\* The flags are kept while a next audio frame can still be observed.
Observing == wire # <<>> /\ Len(wire) < MaxFrames

\* Websocket::new.
InitWebsocket ==
    /\ ws = 0 /\ ws_thread = 0 /\ sender = 0 /\ server_event_tx = 0
    /\ server_event_from_handler_tx = 0 /\ server_event_from_handler_rx = 0
    /\ audio_uuid = 0
    /\ tstate = [k \in Conns |-> "none"]
    /\ handlerTx = [k \in Conns |-> 0]
    /\ chan = [c \in Chans |-> <<>>]
    /\ worker = [c \in Chans |-> FALSE]
    /\ callerQ = <<>> /\ rxAlive = FALSE
    /\ nchan = 0 /\ nuuid = 0
    /\ pc = "idle" /\ ok = FALSE
    /\ last = Done("new", "unit")
    /\ wire = <<>> /\ staleEnds = 0 /\ turnEndTaken = FALSE /\ resetDone = FALSE

\* Speech::websocket not yet called.
InitSpeech ==
    /\ s_pc = "start" /\ recv_thread = "none" /\ recv_rx = <<>> /\ send_rx = <<>>
    /\ send_thread = "none" /\ t2 = "none" /\ s_wire = <<>> /\ calls = <<>>
    /\ enq = <<>> /\ attempts = <<>> /\ out_log = <<>>

\* No frame received, no consumer at work.
InitFrames ==
    /\ lastText = [n |-> 0, kind |-> "none",
                   frame |-> [hdr |-> <<>>, sep |-> FALSE, body |-> <<>>]]
    /\ sentLog = <<>> /\ delivered = <<>>

\* The threads: the callers of one Websocket and its reset worker; for each
\* call of Speech::websocket the calling thread, t1 and _t2.
MaxCallers == 2

MaxSessions == 2

Callers == {<<"caller", i>> : i \in 1..MaxCallers}

ResetThread == <<"reset", 1>>

Sessions == 1..MaxSessions

Main(s) == <<"main", s>>

T1Thread(s) == <<"t1", s>>

T2Thread(s) == <<"t2", s>>

Threads ==
    Callers \cup {ResetThread}
    \cup {Main(s) : s \in Sessions} \cup {T1Thread(s) : s \in Sessions}
    \cup {T2Thread(s) : s \in Sessions}

NoThread == <<"none", 0>>

\* The Mutexes: self.sender and self.audio_uuid of the Websocket; the handler
\* the sessions are given, and the Protocol of each session.
SenderMutex == <<"sender", 0>>

UuidMutex == <<"audio_uuid", 0>>

HandlerMutex == <<"handler", 0>>

ProtocolMutex(s) == <<"protocol", s>>

Mutexes == {SenderMutex, UuidMutex, HandlerMutex} \cup {ProtocolMutex(s) : s \in Sessions}

\* Where a thread is: in no call, or not spawned yet.
Idle == [op |-> "idle", step |-> "idle"]

NotSpawned == [op |-> "none", step |-> "none"]

\* A connected Websocket with no correlation id, its callers and its reset worker
\* in no call; Speech::websocket not yet called, its workers not spawned.
InitLocks ==
    /\ l_at = [t \in Threads |->
                IF t \in Callers \cup {ResetThread} THEN Idle
                ELSE IF t[1] = "main" THEN [op |-> "websocket", step |-> "start"]
                ELSE NotSpawned]
    /\ l_held = [m \in Mutexes |-> NoThread]
    /\ l_sender = TRUE /\ l_uuid = FALSE

\* No audio frame and no URL built.
InitEnc ==
    /\ a_in = [uuid |-> <<>>, now |-> <<>>, audio |-> <<>>] /\ a_frame = <<>>
    /\ u_in = [mode |-> [variant |-> "none", language |-> "none"], format |-> "none",
               is_custom_speech |-> FALSE, endpoint_id |-> "none"]
    /\ u_built = <<>> /\ u_uri = <<>>

\* Phrase::from_json_value and its callers not yet called.
InitPhrase ==
    /\ p_value = [kind |-> "none", fields |-> {}] /\ p_result = "none"
    /\ b_body = <<>> /\ b_http = "none" /\ b_stream = "none"

Init == InitWebsocket /\ InitSpeech /\ InitFrames /\ InitPhrase /\ InitEnc /\ InitLocks

\* ------------------------------------------------------------------------
\* The caller of Websocket.

\* run(): spawn the reset worker on the receiver held in the struct, then the
\* transport thread on the WebSocket k.
run(k, c) ==
    /\ worker' = [worker EXCEPT ![c] = TRUE]
    /\ server_event_from_handler_rx' = 0
    /\ ws' = 0
    /\ ws_thread' = k
    /\ tstate' = [tstate EXCEPT ![k] = "connecting"]

\* open() with a sender present: the new channel replaces the struct's ends,
\* then the early return.
OpenDuplicate ==
    /\ pc = "idle" /\ nchan < MaxOpen
    /\ sender # 0
    /\ nchan' = nchan + 1
    /\ server_event_from_handler_tx' = nchan + 1
    /\ server_event_from_handler_rx' = nchan + 1
    /\ last' = Done("open", "unit")
    /\ UNCHANGED <<ws, ws_thread, sender, server_event_tx, audio_uuid, tstate, handlerTx,
                   chan, worker, callerQ, rxAlive, nuuid, pc, ok, wire, staleEnds, turnEndTaken, resetDone>>

\* open() with no sender: WebSocket::new, ws.connect (which calls the factory:
\* it stores the Sender and clones the channel into the handler), run().
Open ==
    /\ pc = "idle" /\ nchan < MaxOpen
    /\ sender = 0
    /\ nchan' = nchan + 1
    /\ server_event_from_handler_tx' = nchan + 1
    /\ handlerTx' = [handlerTx EXCEPT ![nchan + 1] = nchan + 1]
    /\ sender' = nchan + 1
    /\ run(nchan + 1, nchan + 1)
    /\ last' = Done("open", "unit")
    /\ UNCHANGED <<server_event_tx, audio_uuid, chan, callerQ, rxAlive, nuuid, pc, ok,
                   wire, staleEnds, turnEndTaken, resetDone>>

\* open() when ws.connect(url) returns Err (no address for the host, no room in
\* the event loop): the unwrap panics before run(). The factory may or may not
\* have been called by then.
OpenPanic ==
    /\ pc = "idle" /\ nchan < MaxOpen
    /\ sender = 0
    /\ nchan' = nchan + 1
    /\ server_event_from_handler_tx' = nchan + 1
    /\ server_event_from_handler_rx' = nchan + 1
    /\ ws' = nchan + 1
    /\ \E made \in BOOLEAN :
          /\ sender' = IF made THEN nchan + 1 ELSE 0
          /\ handlerTx' = [handlerTx EXCEPT ![nchan + 1] = IF made THEN nchan + 1 ELSE 0]
    /\ pc' = "panicked"
    /\ last' = Done("open", "panic")
    /\ UNCHANGED <<ws_thread, server_event_tx, audio_uuid, tstate, chan, worker, callerQ,
                   rxAlive, nuuid, ok, wire, staleEnds, turnEndTaken, resetDone>>

\* close(), lines 117-124: clear the sender when the shutdown was accepted.
closeTail(isOk) ==
    /\ sender' = IF isOk THEN 0 ELSE sender
    /\ ws' = IF isOk THEN 0 ELSE ws

\* close() up to the join: shutdown() on the sender if there is one. With no
\* thread handle held there is nothing to wait for and close() runs to its end.
CloseShutdown ==
    /\ pc = "idle"
    /\ LET accepted == sender # 0 /\ Alive(sender)
           rec == [op |-> "close", res |-> "unit",
                   again |-> (last.op = "close" /\ last.res = "unit")]
       IN IF ws_thread = 0
          THEN /\ closeTail(accepted)
               /\ pc' = "idle" /\ ok' = FALSE
               /\ last' = rec
          ELSE /\ pc' = "joining" /\ ok' = accepted
               /\ last' = [rec EXCEPT !.res = "pending"]
               /\ UNCHANGED <<sender, ws>>
    /\ UNCHANGED <<ws_thread, server_event_tx, server_event_from_handler_tx,
                   server_event_from_handler_rx, audio_uuid, tstate, handlerTx, chan,
                   worker, callerQ, rxAlive, nchan, nuuid, wire, staleEnds, turnEndTaken, resetDone>>

\* A close() that reads the thread handle and leaves it in the field.
KeptThread == ws_thread

\* self.ws_thread.take() leaves None in the field.
TakenThread == 0

\* close() from the join on: t.join().unwrap() returns once the transport thread
\* has ended, and panics when that thread panicked.
CloseJoin ==
    /\ pc = "joining"
    /\ Ended(ws_thread)
    /\ ws_thread' = TakenThread
    /\ ok' = FALSE
    /\ IF tstate[ws_thread] = "panicked"
       THEN /\ pc' = "panicked"
            /\ last' = [last EXCEPT !.res = "panic"]
            /\ UNCHANGED <<sender, ws>>
       ELSE /\ pc' = "idle"
            /\ last' = [last EXCEPT !.res = "unit"]
            /\ closeTail(ok)
    /\ UNCHANGED <<server_event_tx, server_event_from_handler_tx,
                   server_event_from_handler_rx, audio_uuid, tstate, handlerTx, chan,
                   worker, callerQ, rxAlive, nchan, nuuid, wire, staleEnds, turnEndTaken, resetDone>>

\* server_event_receiver(): a new channel replaces the caller's.
ServerEventReceiver ==
    /\ pc = "idle"
    /\ server_event_tx' = 1 /\ callerQ' = <<>> /\ rxAlive' = TRUE
    /\ staleEnds' = 0
    /\ last' = Done("server_event_receiver", "unit")
    /\ UNCHANGED <<ws, ws_thread, sender, server_event_from_handler_tx,
                   server_event_from_handler_rx, audio_uuid, tstate, handlerTx, chan,
                   worker, nchan, nuuid, pc, ok, wire, turnEndTaken, resetDone>>

\* An audio() that mints a correlation id at every call.
MintAlways == nuuid + 1

\* audio(), lines 212-219: the stored correlation id, or a newly minted one.
AudioUuid == IF audio_uuid # 0 THEN audio_uuid ELSE nuuid + 1

\* What audio() and config() return with no sender present: their last line.
NoSenderResult == "Ok"

\* A call that goes on as if a sender were present.
SenderAssumed == TRUE

\* audio() and config(): `if let Some(ref sender) = *sender_guard`.
SenderPresent == sender # 0

\* audio(): with a sender, take or mint the id, store it, build the frame and
\* send it; the result is the send's. With no sender, the last line's.
Audio ==
    /\ pc = "idle"
    /\ IF SenderPresent
       THEN /\ AudioUuid <= MaxUuid
            /\ audio_uuid' = AudioUuid
            /\ nuuid' = IF AudioUuid > nuuid THEN AudioUuid ELSE nuuid
            /\ IF Alive(sender)
               THEN /\ Len(wire) < MaxFrames
                    /\ wire' = Append(wire, [conn |-> sender, id |-> AudioUuid])
                    /\ staleEnds' = IF Len(wire) + 1 < MaxFrames THEN TurnEnds(callerQ) ELSE 0
                    /\ turnEndTaken' = FALSE /\ resetDone' = FALSE
                    /\ last' = Done("audio", "Ok")
               ELSE /\ last' = Done("audio", "Err")
                    /\ UNCHANGED <<wire, staleEnds, turnEndTaken, resetDone>>
       ELSE /\ last' = Done("audio", NoSenderResult)
            /\ UNCHANGED <<audio_uuid, nuuid, wire, staleEnds, turnEndTaken, resetDone>>
    /\ UNCHANGED <<ws, ws_thread, sender, server_event_tx, server_event_from_handler_tx,
                   server_event_from_handler_rx, tstate, handlerTx, chan, worker, callerQ,
                   rxAlive, nchan, pc, ok>>

\* config(): with a sender, a speech.config text frame under a request id of
\* its own; the result is the send's.
Config ==
    /\ pc = "idle"
    /\ last' = Done("config", IF ~SenderPresent THEN NoSenderResult
                               ELSE IF Alive(sender) THEN "Ok" ELSE "Err")
    /\ UNCHANGED <<ws, ws_thread, sender, server_event_tx, server_event_from_handler_tx,
                   server_event_from_handler_rx, audio_uuid, tstate, handlerTx, chan,
                   worker, callerQ, rxAlive, nchan, nuuid, pc, ok, wire, staleEnds, turnEndTaken,
                   resetDone>>

\* ------------------------------------------------------------------------
\* The consumer of the caller's channel.

\* It takes the next event from the Receiver server_event_receiver() returned.
CallerRecv ==
    /\ rxAlive /\ callerQ # <<>>
    /\ callerQ' = Tail(callerQ)
    /\ IF Head(callerQ) = "TurnEnd" /\ staleEnds > 0
       THEN staleEnds' = staleEnds - 1 /\ turnEndTaken' = turnEndTaken
       ELSE /\ staleEnds' = staleEnds
            /\ turnEndTaken' = (turnEndTaken \/ (Head(callerQ) = "TurnEnd" /\ Observing))
    /\ UNCHANGED <<ws, ws_thread, sender, server_event_tx, server_event_from_handler_tx,
                   server_event_from_handler_rx, audio_uuid, tstate, handlerTx, chan,
                   worker, rxAlive, nchan, nuuid, pc, ok, last, wire, resetDone>>

\* It drops the Receiver.
DropReceiver ==
    /\ rxAlive
    /\ rxAlive' = FALSE /\ callerQ' = <<>>
    /\ staleEnds' = 0
    /\ UNCHANGED <<ws, ws_thread, sender, server_event_tx, server_event_from_handler_tx,
                   server_event_from_handler_rx, audio_uuid, tstate, handlerTx, chan,
                   worker, nchan, nuuid, pc, ok, last, wire, turnEndTaken,
                   resetDone>>

\* ------------------------------------------------------------------------
\* The transport thread of connection k (ws.run() and the MyHandler callbacks).

\* on_open: the handshake succeeded.
OnOpen(k) ==
    /\ tstate[k] = "connecting"
    /\ tstate' = [tstate EXCEPT ![k] = "open"]
    /\ UNCHANGED <<ws, ws_thread, sender, server_event_tx, server_event_from_handler_tx,
                   server_event_from_handler_rx, audio_uuid, handlerTx, chan, worker,
                   callerQ, rxAlive, nchan, nuuid, pc, ok, last, wire, staleEnds, turnEndTaken,
                   resetDone>>

\* A handler that sends to whatever channel the struct holds at the moment.
StructChan(k) == server_event_from_handler_tx

\* The handler channel MyHandler of connection k sends to: its own clone.
HandlerChan(k) == handlerTx[k]

\* on_message with a text frame: parse_server_message_text sends the event to the
\* handler channel, then to the caller's channel if there is one. Each send is
\* unwrapped: it panics the thread when the channel's Receiver is gone.
OnMessage(k, path) ==
    /\ tstate[k] = "open"
    /\ LET ev == EventOf(path)
           c == HandlerChan(k)
           first == c = 0 \/ RxHeld(c)
           second == server_event_tx = 0 \/ rxAlive
       IN /\ c # 0 => Len(chan[c]) < MaxQ
          /\ server_event_tx # 0 => Len(callerQ) < MaxQ
          /\ chan' = IF c # 0 /\ first THEN [chan EXCEPT ![c] = Append(@, ev)] ELSE chan
          /\ callerQ' = IF first /\ server_event_tx # 0 /\ rxAlive
                        THEN Append(callerQ, ev) ELSE callerQ
          /\ tstate' = IF first /\ second THEN tstate ELSE [tstate EXCEPT ![k] = "panicked"]
    /\ UNCHANGED <<ws, ws_thread, sender, server_event_tx, server_event_from_handler_tx,
                   server_event_from_handler_rx, audio_uuid, handlerTx, worker, rxAlive,
                   nchan, nuuid, pc, ok, last, wire, staleEnds, turnEndTaken,
                   resetDone>>

\* close() queued a shutdown command for connection k and waits in the join.
ShutdownQueued(k) == pc = "joining" /\ ok /\ ws_thread = k

\* The connection ends (handshake failure, close by the remote side, transport
\* error, or the shutdown close() queued) and with it ws.run() and the thread.
\* ws may or may not call on_close on the way; on_close sends Disconnect to the
\* caller's channel and only logs a failed send.
TransportEnd(k, withClose) ==
    /\ Alive(k)
    /\ tstate' = [tstate EXCEPT ![k] = IF tstate[k] = "connecting" /\ ~ShutdownQueued(k)
                                       THEN "failed" ELSE "done"]
    /\ IF withClose /\ server_event_tx # 0 /\ rxAlive
       THEN /\ Len(callerQ) < MaxQ
            /\ callerQ' = Append(callerQ, "Disconnect")
       ELSE callerQ' = callerQ
    /\ UNCHANGED <<ws, ws_thread, sender, server_event_tx, server_event_from_handler_tx,
                   server_event_from_handler_rx, audio_uuid, handlerTx, chan, worker,
                   rxAlive, nchan, nuuid, pc, ok, last, wire, staleEnds, turnEndTaken,
                   resetDone>>

\* The worker's match arm that clears the id, and one that takes another event.
ResetsOnTurnStart == "TurnStart"

ResetsOn == "TurnEnd"

\* ------------------------------------------------------------------------
\* The reset worker run() spawned on handler channel c: one turn of its loop
\* with an event in the channel. (With the channel empty recv() blocks, or,
\* once every Sender is dropped, returns Err and the loop spins.)
ResetWorker(c) ==
    /\ worker[c] /\ server_event_from_handler_running
    /\ chan[c] # <<>>
    /\ chan' = [chan EXCEPT ![c] = Tail(@)]
    /\ IF Head(chan[c]) = ResetsOn
       THEN /\ audio_uuid' = 0
            /\ resetDone' = (resetDone \/ Observing)
       ELSE UNCHANGED <<audio_uuid, resetDone>>
    /\ UNCHANGED <<ws, ws_thread, sender, server_event_tx, server_event_from_handler_tx,
                   server_event_from_handler_rx, tstate, handlerTx, worker, callerQ,
                   rxAlive, nchan, nuuid, pc, ok, last, wire, staleEnds, turnEndTaken>>

Next ==
    \/ (OpenDuplicate /\ UNCHANGED <<speechVars, restVars>>)
    \/ (Open /\ UNCHANGED <<speechVars, restVars>>)
    \/ (OpenPanic /\ UNCHANGED <<speechVars, restVars>>)
    \/ (CloseShutdown /\ UNCHANGED <<speechVars, restVars>>)
    \/ (CloseJoin /\ UNCHANGED <<speechVars, restVars>>)
    \/ (ServerEventReceiver /\ UNCHANGED <<speechVars, restVars>>)
    \/ (Audio /\ UNCHANGED <<speechVars, restVars>>)
    \/ (Config /\ UNCHANGED <<speechVars, restVars>>)
    \/ (CallerRecv /\ UNCHANGED <<speechVars, restVars>>)
    \/ (DropReceiver /\ UNCHANGED <<speechVars, restVars>>)
    \/ (\E k \in Conns : OnOpen(k) /\ UNCHANGED <<speechVars, restVars>>)
    \/ (\E k \in Conns, path \in Paths : OnMessage(k, path) /\ UNCHANGED <<speechVars, restVars>>)
    \/ (\E k \in Conns, withClose \in BOOLEAN : TransportEnd(k, withClose) /\ UNCHANGED <<speechVars, restVars>>)
    \/ (\E c \in Chans : ResetWorker(c) /\ UNCHANGED <<speechVars, restVars>>)

Spec == Init /\ [][Next]_vars

\* Each reset worker is a thread of its own, blocked in recv() only while its
\* channel is empty: a turn of its loop that can be taken is taken.
SpecFair ==
    Spec /\ \A c \in Chans : WF_vars(ResetWorker(c) /\ UNCHANGED <<speechVars, restVars>>)

\* ------------------------------------------------------------------------
\* Speech::websocket.

\* A channel that hands out the newest message first.
EnqueueFront(q, e) == <<e>> \o q

\* Sender::send: the message goes to the back of the channel.
Enqueue(q, e) == Append(q, e)

RECURSIVE EnqueueAll(_, _)
EnqueueAll(q, es) == IF es = <<>> THEN q ELSE EnqueueAll(Enqueue(q, Head(es)), Tail(es))

\* A Protocol::config that sends nothing.
NoConfigFrames == <<>>

\* Protocol::config(&sender, &cfg): the frames it hands to the ws::Sender,
\* one speech.config text frame.
ConfigFrames == <<[frame |-> "config", id |-> 0]>>

MaxEvents == 4
MaxSend == 3

\* A match in _t2 that has no arm for SpeechHypothesis.
NoHypothesisCallback == {"TurnStart", "TurnEnd", "SpeechStartDetected", "SpeechPhrase",
                         "SpeechEndDetected"}

\* The events with a Handler callback (the match in _t2).
Callbacks == {"TurnStart", "TurnEnd", "SpeechStartDetected", "SpeechHypothesis",
              "SpeechPhrase", "SpeechEndDetected"}

\* The Path values of the frames the Instance receives.
InstancePaths == {"turn.start", "speech.hypothesis", "bogus"}

\* A Receiver that hands out the newest message.
RecvNewest(q) == Len(q)

\* Receiver::recv on a channel that holds q: the position of the message it
\* returns, the oldest.
Recv(q) == 1

\* The channel without the message at position i.
Rest(q, i) == SubSeq(q, 1, i - 1) \o SubSeq(q, i + 1, Len(q))

\* A worker that stops at a failed send.
BreakOnSendError == "done"

\* t1 after protocol.audio returned Err, line 158: the error is logged.
OnSendError == "running"

\* A worker that goes on after Disconnect.
IgnoreDisconnect == "running"

\* t1 after ClientEvent::Disconnect, line 161: break.
OnDisconnect == "done"

\* What protocol.audio(&sender, &audio) can return: Err once the event loop of
\* the connection is gone, and Err or Ok before (its queue may be full).
AudioResults == IF recv_thread = "open" THEN {"Ok", "Err"} ELSE {"Err"}

\* Lines 123-141: the channel, the transport thread, then recv_rx.recv() blocks.
SpawnRecvThread ==
    /\ s_pc = "start"
    /\ recv_thread' = "connecting"
    /\ s_pc' = "waiting"
    /\ UNCHANGED <<recv_rx, send_rx, send_thread, t2, s_wire, calls, enq, attempts, out_log>>

\* The Instance sends an event through thread_out. The event carries the
\* number of the send, which stands for its payload.
ThreadOut(ev) ==
    /\ recv_rx' = Enqueue(recv_rx, [ev |-> ev, n |-> Len(out_log) + 1])
    /\ out_log' = Append(out_log, [ev |-> ev, n |-> Len(out_log) + 1])

\* The handshake succeeded: the Instance sends Connect(out) through thread_out.
InstanceOnOpen ==
    /\ recv_thread = "connecting"
    /\ recv_thread' = "open"
    /\ ThreadOut("Connect")
    /\ UNCHANGED <<s_pc, send_rx, send_thread, t2, s_wire, calls, enq, attempts>>

\* A text frame arrives: the Instance sends its event through thread_out.
InstanceOnMessage(path) ==
    /\ recv_thread = "open"
    /\ Len(out_log) < MaxEvents
    /\ ThreadOut(EventOf(path))
    /\ UNCHANGED <<s_pc, recv_thread, send_rx, send_thread, t2, s_wire, calls, enq, attempts>>

\* The connection closes: the Instance sends Disconnect through thread_out,
\* ws::connect returns and the thread ends.
InstanceOnClose ==
    /\ recv_thread = "open"
    /\ Len(out_log) < MaxEvents
    /\ ThreadOut("Disconnect")
    /\ recv_thread' = "done"
    /\ UNCHANGED <<s_pc, send_rx, send_thread, t2, s_wire, calls, enq, attempts>>

\* ws::connect returns (Err before the handshake completes, Ok after the
\* connection closed): the closure and its recv_tx are dropped, the thread ends.
RecvThreadEnd ==
    /\ recv_thread \in {"connecting", "open"}
    /\ recv_thread' = "done"
    /\ UNCHANGED <<s_pc, recv_rx, send_rx, send_thread, t2, s_wire, calls, enq, attempts,
                   out_log>>

\* Lines 141-215: recv_rx.recv() returns. On Connect(sender): Protocol::config,
\* unwrapped, then t1 and _t2 are spawned and the Handle is returned. On any
\* other event, or Err with every recv_tx dropped: unimplemented!().
WaitConnect ==
    /\ s_pc = "waiting"
    /\ recv_rx # <<>> \/ recv_thread = "done"
    /\ IF recv_rx # <<>> /\ recv_rx[Recv(recv_rx)].ev = "Connect"
       THEN /\ recv_rx' = Rest(recv_rx, Recv(recv_rx))
            /\ IF recv_thread = "open"
               THEN /\ s_wire' = s_wire \o ConfigFrames
                    /\ send_thread' = "running" /\ t2' = "running"
                    /\ s_pc' = "returned"
               ELSE /\ s_pc' = "panicked"
                    /\ UNCHANGED <<s_wire, send_thread, t2>>
       ELSE /\ recv_rx' = IF recv_rx # <<>> THEN Rest(recv_rx, Recv(recv_rx)) ELSE recv_rx
            /\ s_pc' = "panicked"
            /\ UNCHANGED <<s_wire, send_thread, t2>>
    /\ UNCHANGED <<recv_thread, send_rx, calls, enq, attempts, out_log>>

\* The holder of the Handle sends a ClientEvent through send_tx; the event
\* carries the number of the send. Once t1 has ended and dropped send_rx the
\* send returns Err and nothing is queued.
HandleSend(ev) ==
    /\ s_pc = "returned"
    /\ send_thread = "running"
    /\ Len(enq) < MaxSend
    /\ send_rx' = Enqueue(send_rx, [ev |-> ev, id |-> Len(enq) + 1])
    /\ enq' = Append(enq, [ev |-> ev, id |-> Len(enq) + 1])
    /\ UNCHANGED <<s_pc, recv_thread, recv_rx, send_thread, t2, s_wire, calls, attempts,
                   out_log>>

\* The holder drops the Handle, and with it send_tx.
HandleDrop ==
    /\ s_pc = "returned"
    /\ s_pc' = "dropped"
    /\ UNCHANGED <<recv_thread, recv_rx, send_rx, send_thread, t2, s_wire, calls, enq,
                   attempts, out_log>>

\* t1, lines 151-168: one turn of its loop: an event from send_rx, or Err once
\* the channel is empty and send_tx is dropped.
T1Step ==
    /\ send_thread = "running"
    /\ send_rx # <<>> \/ s_pc = "dropped"
    /\ IF send_rx # <<>>
       THEN /\ send_rx' = Rest(send_rx, Recv(send_rx))
            /\ IF send_rx[Recv(send_rx)].ev = "Audio"
               THEN \E res \in AudioResults :
                      /\ attempts' = Append(attempts,
                                            [id |-> send_rx[Recv(send_rx)].id, res |-> res])
                      /\ s_wire' = IF res = "Ok"
                                   THEN Append(s_wire, [frame |-> "audio",
                                                        id |-> send_rx[Recv(send_rx)].id])
                                   ELSE s_wire
                      /\ send_thread' = IF res = "Ok" THEN "running" ELSE OnSendError
               ELSE /\ send_thread' = OnDisconnect
                    /\ UNCHANGED <<s_wire, attempts>>
       ELSE /\ send_thread' = "done"
            /\ UNCHANGED <<send_rx, s_wire, attempts>>
    /\ UNCHANGED <<s_pc, recv_thread, recv_rx, t2, calls, enq, out_log>>

\* _t2, lines 172-210: one turn of its loop: an event (its Handler callback,
\* with the payload of the event, if it has one), or Err once the channel is
\* empty and every recv_tx is dropped.
T2Step ==
    /\ t2 = "running"
    /\ recv_rx # <<>> \/ recv_thread = "done"
    /\ IF recv_rx # <<>>
       THEN /\ recv_rx' = Rest(recv_rx, Recv(recv_rx))
            /\ t2' = t2
            /\ calls' = IF recv_rx[Recv(recv_rx)].ev \in Callbacks
                        THEN Append(calls, [cb |-> recv_rx[Recv(recv_rx)].ev,
                                            arg |-> recv_rx[Recv(recv_rx)].n])
                        ELSE calls
       ELSE /\ t2' = "done"
            /\ UNCHANGED <<recv_rx, calls>>
    /\ UNCHANGED <<s_pc, recv_thread, send_rx, send_thread, s_wire, enq, attempts, out_log>>

\* A turn of t1 as a step of the whole state.
T1 == T1Step /\ UNCHANGED <<wsVars, restVars>>

NextSpeech ==
    \/ (SpawnRecvThread /\ UNCHANGED <<wsVars, restVars>>)
    \/ (InstanceOnOpen /\ UNCHANGED <<wsVars, restVars>>)
    \/ (\E path \in InstancePaths : InstanceOnMessage(path) /\ UNCHANGED <<wsVars, restVars>>)
    \/ (InstanceOnClose /\ UNCHANGED <<wsVars, restVars>>)
    \/ (RecvThreadEnd /\ UNCHANGED <<wsVars, restVars>>)
    \/ (WaitConnect /\ UNCHANGED <<wsVars, restVars>>)
    \/ (\E ev \in {"Audio", "Disconnect"} : HandleSend(ev) /\ UNCHANGED <<wsVars, restVars>>)
    \/ (HandleDrop /\ UNCHANGED <<wsVars, restVars>>)
    \/ T1
    \/ (T2Step /\ UNCHANGED <<wsVars, restVars>>)

SpecSpeech == Init /\ [][NextSpeech]_vars

\* The scheduler runs t1 whenever it has a turn to take.
SpecSpeechFair == SpecSpeech /\ WF_vars(T1)

\* ------------------------------------------------------------------------
\* Text. A text is a sequence of tokens: the line break "\r\n", the colon, the
\* space, and words (tokens that hold none of these characters).

CRLF == "CRLF"

Whitespace == {" ", CRLF}

\* The text s holds the text p at position i.
MatchAt(s, p, i) ==
    /\ i + Len(p) - 1 <= Len(s)
    /\ \A j \in 1..Len(p) : s[i + j - 1] = p[j]

\* str::split(sep): the pieces between the matches of sep, found left to right
\* and not overlapping; cur is the piece begun before position i.
RECURSIVE SplitFrom(_, _, _, _)
SplitFrom(s, sep, i, cur) ==
    IF i > Len(s) THEN <<cur>>
    ELSE IF MatchAt(s, sep, i) THEN <<cur>> \o SplitFrom(s, sep, i + Len(sep), <<>>)
    ELSE SplitFrom(s, sep, i + 1, Append(cur, s[i]))

Split(s, sep) == SplitFrom(s, sep, 1, <<>>)

\* str::trim(): the text without its leading and trailing whitespace.
Trim(s) ==
    LET kept == {i \in 1..Len(s) : s[i] \notin Whitespace}
    IN IF kept = {} THEN <<>>
       ELSE SubSeq(s, CHOOSE i \in kept : \A j \in kept : i <= j,
                      CHOOSE i \in kept : \A j \in kept : j <= i)

\* The members of a JSON object, one token each: a member holds its name and,
\* for RecognitionStatus, its value. "RS=5" is a RecognitionStatus that is not
\* a string.
StatusMembers == {"RS=Success", "RS=InitialSilenceTimeout", "RS=Error", "RS=5"}
Members == StatusMembers \cup {"DisplayText", "Offset", "Duration", "NBest", "Text"}

\* serde_json::from_str / from_slice to a Value: an object (its members between
\* braces, whitespace between tokens skipped), another value ("7"), or an error.
JsonValue(body) ==
    LET t == SelectSeq(body, LAMBDA x : x \notin Whitespace)
    IN IF Len(t) >= 2 /\ t[1] = "{" /\ t[Len(t)] = "}"
             /\ \A i \in 2..(Len(t) - 1) : t[i] \in Members
       THEN [kind |-> "object", fields |-> {t[i] : i \in 2..(Len(t) - 1)}]
       ELSE IF t = <<"7">> THEN [kind |-> "other", fields |-> {}]
       ELSE [kind |-> "invalid", fields |-> {}]

\* serde_json::from_value into a struct: Ok when every field of the struct is
\* a member of the object (members the struct does not name are skipped).
Deserializes(fields, needed) ==
    /\ needed \subseteq fields
    /\ fields \cap {"RS=Success", "RS=InitialSilenceTimeout", "RS=Error"} # {}

\* A from_json_value that looks at the status only.
VariantByStatus(fields) ==
    IF "RS=Success" \in fields THEN "Simple"
    ELSE IF "RS=InitialSilenceTimeout" \in fields THEN "Silence"
    ELSE "Unknown"

\* Phrase::from_json_value, lines 490-499: the variant chosen for an object
\* whose RecognitionStatus is a string.
Variant(fields) ==
    IF "RS=Success" \in fields
    THEN IF "DisplayText" \in fields THEN "Simple" ELSE "Detailed"
    ELSE IF "RS=InitialSilenceTimeout" \in fields THEN "Silence"
    ELSE "Unknown"

\* The fields of SimplePhrase, DetailedPhrase and SilencePhrase besides
\* RecognitionStatus.
StructFields(variant) ==
    CASE variant = "Simple" -> {"DisplayText", "Offset", "Duration"}
      [] variant = "Detailed" -> {"Offset", "Duration", "NBest"}
      [] variant = "Silence" -> {"Offset", "Duration"}
      [] OTHER -> {}

\* Phrase::from_json_value: the variant of Ok(variant), "Err", or "panic"
\* (object["RecognitionStatus"] with no such member, as_str().unwrap() on a
\* value that is not a string).
from_json_value(value) ==
    IF value.kind # "object" THEN "Unknown"
    ELSE IF value.fields \cap StatusMembers = {} THEN "panic"
    ELSE IF "RS=5" \in value.fields THEN "panic"
    ELSE IF Variant(value.fields) = "Unknown" THEN "Unknown"
    ELSE IF Deserializes(value.fields, StructFields(Variant(value.fields)))
         THEN Variant(value.fields)
    ELSE "Err"

\* The text s with the text g put in after its first i tokens.
InsertAt(s, i, g) == SubSeq(s, 1, i) \o g \o SubSeq(s, i + 1, Len(s))

\* serde_json::from_slice::<Hypothesis>(body) is Ok.
IsHypothesis(body) ==
    /\ JsonValue(body).kind = "object"
    /\ {"Text", "Offset", "Duration"} \subseteq JsonValue(body).fields

\* serde_json::from_str(body) and Phrase::from_json_value of it are both Ok.
IsPhrase(body) ==
    /\ JsonValue(body).kind # "invalid"
    /\ from_json_value(JsonValue(body)) \notin {"Err", "panic"}

\* The match on the Path value, lines 274-288: the event, or "panic" when one
\* of its unwraps fails.
PathEvent(value, body) ==
    LET ev == IF Len(value) = 1 THEN EventOf(value[1]) ELSE "Unknown"
    IN IF ev = "SpeechHypothesis" /\ ~IsHypothesis(body) THEN "panic"
       ELSE IF ev = "SpeechPhrase" /\ ~IsPhrase(body) THEN "panic"
       ELSE ev

\* What the event carries: the parsed body, for the two events that have one.
Payload(ev, body) == IF ev \in {"SpeechHypothesis", "SpeechPhrase"} THEN body ELSE <<>>

\* The loop over the header lines, lines 269-300: the events sent, in order,
\* and whether an index or an unwrap panicked (which ends the loop).
RECURSIVE ParseLines(_, _)
ParseLines(lines, body) ==
    IF lines = <<>> THEN [events |-> <<>>, panic |-> FALSE]
    ELSE LET kv == Split(Head(lines), <<":">>)
         IN IF Len(kv) < 2 THEN [events |-> <<>>, panic |-> TRUE]
            ELSE IF Trim(kv[1]) # <<"Path">> THEN ParseLines(Tail(lines), body)
            ELSE IF PathEvent(Trim(kv[2]), body) = "panic"
                 THEN [events |-> <<>>, panic |-> TRUE]
            ELSE LET rest == ParseLines(Tail(lines), body)
                 IN [events |-> <<[ev |-> PathEvent(Trim(kv[2]), body),
                                   body |-> Payload(PathEvent(Trim(kv[2]), body), body)]>>
                                \o rest.events,
                     panic |-> rest.panic]

\* parse_server_message_text: sections[1] panics when the text has no
\* "\r\n\r\n" in it.
parse_server_message_text(text) ==
    LET sections == Split(text, <<CRLF, CRLF>>)
    IN IF Len(sections) < 2 THEN [events |-> <<>>, panic |-> TRUE]
       ELSE ParseLines(Split(sections[1], <<CRLF>>), sections[2])

\* ------------------------------------------------------------------------
\* The text frames of one open connection, and the consumer of its events.

MaxRecv == 2

\* A header line as the service writes it: a key, a colon and a value, with or
\* without spaces around them; or a line with no colon in it.
Line(key, val) == [key |-> key, val |-> val, pad |-> FALSE, colon |-> TRUE]
Padded(key, val) == [key |-> key, val |-> val, pad |-> TRUE, colon |-> TRUE]
Bare(key) == [key |-> key, val |-> <<>>, pad |-> FALSE, colon |-> FALSE]

RenderLine(l) ==
    IF ~l.colon THEN <<l.key>>
    ELSE IF l.pad THEN <<" ", l.key, " ", ":", " ">> \o l.val \o <<" ">>
    ELSE <<l.key, ":">> \o l.val

RECURSIVE RenderHeader(_)
RenderHeader(hdr) ==
    IF hdr = <<>> THEN <<>>
    ELSE IF Len(hdr) = 1 THEN RenderLine(hdr[1])
    ELSE RenderLine(hdr[1]) \o <<CRLF>> \o RenderHeader(Tail(hdr))

\* The text of a frame: the header lines, the empty line, the body.
Render(f) == RenderHeader(f.hdr) \o (IF f.sep THEN <<CRLF, CRLF>> ELSE <<>>) \o f.body

\* The Path values: the six of the protocol, one that is none of them, and one
\* with a colon in it.
PathValues ==
    { <<"turn.start">>, <<"turn.end">>, <<"speech.startDetected">>, <<"speech.hypothesis">>,
      <<"speech.phrase">>, <<"speech.endDetected">>, <<"bogus">>, <<"turn.end", ":", "x">> }

RequestId == Line("X-RequestId", <<"abc">>)
Timestamp == Line("X-Timestamp", <<"12", ":", "00">>)

\* The headers: a Path line alone, after or before another line; a header with
\* no Path line; with two; with a line that has no colon.
Headers ==
    {<<Line("Path", v)>> : v \in PathValues}
    \cup {<<Padded("Path", v)>> : v \in {<<"turn.end">>, <<"speech.phrase">>, <<"bogus">>}}
    \cup {<<RequestId, Line("Path", v)>> : v \in {<<"turn.start">>, <<"speech.hypothesis">>}}
    \cup { <<Line("Path", <<"speech.endDetected">>), Timestamp>>,
           <<RequestId>>,
           <<Line("path", <<"turn.end">>)>>,
           <<Line("Path", <<"turn.start">>), Line("Path", <<"turn.end">>)>>,
           <<Line("Path", <<"turn.start">>), Bare("junk")>>,
           <<Bare("junk")>> }

HypothesisBody == <<"{", "Text", "Offset", "Duration", "}">>
PhraseBody == <<"{", "RS=Success", "DisplayText", "Offset", "Duration", "}">>

\* The bodies a header comes with.
BodiesOf(hdr) ==
    IF \E i \in 1..Len(hdr) : hdr[i].val = <<"speech.hypothesis">>
    THEN {HypothesisBody, <<"{", "Text">>}
    ELSE IF \E i \in 1..Len(hdr) : hdr[i].val = <<"speech.phrase">>
    THEN {PhraseBody, InsertAt(PhraseBody, 1, <<CRLF, CRLF>>), <<>>}
    ELSE {<<>>, PhraseBody}

\* The frames the service sends.
Frames ==
    UNION {{[hdr |-> h, sep |-> TRUE, body |-> b] : b \in BodiesOf(h)} : h \in Headers}
    \cup {[hdr |-> <<Line("Path", <<"turn.start">>)>>, sep |-> FALSE, body |-> <<>>]}

\* The state after server_event_receiver(), open() and on_open of connection 1.
InitText ==
    /\ ws = 0 /\ ws_thread = 1 /\ sender = 1 /\ server_event_tx = 1
    /\ server_event_from_handler_tx = 1 /\ server_event_from_handler_rx = 0
    /\ audio_uuid = 0
    /\ tstate = [k \in Conns |-> IF k = 1 THEN "open" ELSE "none"]
    /\ handlerTx = [k \in Conns |-> IF k = 1 THEN 1 ELSE 0]
    /\ chan = [c \in Chans |-> <<>>]
    /\ worker = [c \in Chans |-> c = 1]
    /\ callerQ = <<>> /\ rxAlive = TRUE
    /\ nchan = 1 /\ nuuid = 0
    /\ pc = "idle" /\ ok = FALSE
    /\ last = Done("open", "unit")
    /\ wire = <<>> /\ staleEnds = 0 /\ turnEndTaken = FALSE /\ resetDone = FALSE
    /\ InitSpeech /\ InitFrames /\ InitPhrase /\ InitEnc /\ InitLocks

\* on_message with the text of a frame, both Receivers alive:
\* parse_server_message_text sends each event to the handler channel and to
\* the caller's channel, and a panic ends the thread.
OnText(k, frame) ==
    /\ tstate[k] = "open"
    /\ lastText.n < MaxRecv
    /\ HandlerChan(k) # 0 /\ RxHeld(HandlerChan(k))
    /\ server_event_tx # 0 /\ rxAlive
    /\ LET r == parse_server_message_text(Render(frame))
           n == lastText.n + 1
           names == [i \in 1..Len(r.events) |-> r.events[i].ev]
           tagged == [i \in 1..Len(r.events) |->
                        [frame |-> n, ev |-> r.events[i].ev, body |-> r.events[i].body]]
       IN /\ chan' = [chan EXCEPT ![HandlerChan(k)] = EnqueueAll(@, names)]
          /\ callerQ' = EnqueueAll(callerQ, tagged)
          /\ sentLog' = sentLog \o tagged
          /\ tstate' = IF r.panic THEN [tstate EXCEPT ![k] = "panicked"] ELSE tstate
          /\ lastText' = [n |-> n, kind |-> "text", frame |-> frame]
    /\ UNCHANGED <<ws, ws_thread, sender, server_event_tx, server_event_from_handler_tx,
                   server_event_from_handler_rx, audio_uuid, handlerTx, worker, rxAlive,
                   nchan, nuuid, pc, ok, last, wire, staleEnds, turnEndTaken, resetDone,
                   delivered>>

\* A handler that takes a binary message for an unroutable text.
BinaryAsUnknown == <<"Unknown">>

\* parse_server_message, the arm `_ => warn!("Unimplemented")`: the events a
\* message that is no text sends.
BinaryEvents == <<>>

\* on_message with a binary frame, both Receivers alive: parse_server_message
\* logs a warning and returns Ok(()).
OnBinary(k) ==
    /\ tstate[k] = "open"
    /\ lastText.n < MaxRecv
    /\ HandlerChan(k) # 0 /\ RxHeld(HandlerChan(k))
    /\ server_event_tx # 0 /\ rxAlive
    /\ LET n == lastText.n + 1
           tagged == [i \in 1..Len(BinaryEvents) |->
                        [frame |-> n, ev |-> BinaryEvents[i], body |-> <<>>]]
       IN /\ chan' = [chan EXCEPT ![HandlerChan(k)] = EnqueueAll(@, BinaryEvents)]
          /\ callerQ' = EnqueueAll(callerQ, tagged)
          /\ sentLog' = sentLog \o tagged
          /\ lastText' = [n |-> n, kind |-> "binary",
                          frame |-> [hdr |-> <<>>, sep |-> FALSE, body |-> <<>>]]
    /\ UNCHANGED <<ws, ws_thread, sender, server_event_tx, server_event_from_handler_tx,
                   server_event_from_handler_rx, audio_uuid, tstate, handlerTx, worker,
                   rxAlive, nchan, nuuid, pc, ok, last, wire, staleEnds, turnEndTaken,
                   resetDone, delivered>>

\* The consumer takes the next event from the Receiver (Receiver::recv).
ConsumerRecv ==
    /\ rxAlive /\ callerQ # <<>>
    /\ delivered' = Append(delivered, Head(callerQ))
    /\ callerQ' = Tail(callerQ)
    /\ UNCHANGED <<ws, ws_thread, sender, server_event_tx, server_event_from_handler_tx,
                   server_event_from_handler_rx, audio_uuid, tstate, handlerTx, chan, worker,
                   rxAlive, nchan, nuuid, pc, ok, last, wire, staleEnds, turnEndTaken,
                   resetDone, lastText, sentLog>>

NextText ==
    \/ (\E frame \in Frames : OnText(1, frame)
            /\ UNCHANGED <<speechVars, p_value, p_result, b_body, b_http, b_stream, encVars, lockVars>>)
    \/ (OnBinary(1) /\ UNCHANGED <<speechVars, p_value, p_result, b_body, b_http, b_stream, encVars, lockVars>>)
    \/ (ConsumerRecv /\ UNCHANGED <<speechVars, p_value, p_result, b_body, b_http, b_stream, encVars, lockVars>>)
    \/ (ResetWorker(1) /\ UNCHANGED <<speechVars, restVars>>)

SpecText == InitText /\ [][NextText]_vars

\* ------------------------------------------------------------------------
\* Phrase::from_json_value on its own.

\* The values it is called with: objects with or without a RecognitionStatus
\* and any of the other members, and a value that is not an object.
JsonValues ==
    {[kind |-> "object", fields |-> st \cup fs] :
        st \in {{}} \cup {{m} : m \in StatusMembers},
        fs \in SUBSET {"DisplayText", "Offset", "Duration", "NBest"}}
    \cup {[kind |-> "other", fields |-> {}]}

InitValue ==
    /\ InitWebsocket /\ InitSpeech /\ InitFrames /\ InitEnc /\ InitLocks
    /\ p_value \in JsonValues /\ p_result = "none"
    /\ b_body = <<>> /\ b_http = "none" /\ b_stream = "none"

CallFromJsonValue ==
    /\ p_result = "none"
    /\ p_result' = from_json_value(p_value)
    /\ UNCHANGED <<wsVars, speechVars, lastText, sentLog, delivered, p_value, b_body,
                   b_http, b_stream, encVars, lockVars>>

NextValue == CallFromJsonValue

SpecValue == InitValue /\ [][NextValue]_vars

\* ------------------------------------------------------------------------
\* One phrase body on the two paths that read it: the HTTP response body of
\* Speech::recognize and the body of a speech.phrase text frame.

\* The members of the bodies: complete and incomplete phrases of every status.
BodyMembers ==
    { <<"RS=Success", "DisplayText", "Offset", "Duration">>,
      <<"RS=Success", "Offset", "Duration", "NBest">>,
      <<"RS=InitialSilenceTimeout", "Offset", "Duration">>,
      <<"RS=Error", "Offset">>,
      <<"RS=Success", "DisplayText">>,
      <<"Offset", "Duration">> }

\* White space JSON allows between two tokens.
Gaps == {<<" ">>, <<CRLF>>, <<CRLF, CRLF>>}

\* The bodies: JSON objects, compact or with white space after a token, a
\* JSON value that is no object, a text that is no JSON, and the empty body.
Bodies ==
    LET compact == {<<"{">> \o ms \o <<"}">> : ms \in BodyMembers}
    IN compact
       \cup UNION {{InsertAt(b, i, g) : i \in 1..(Len(b) - 1), g \in Gaps} : b \in compact}
       \cup {<<"7">>, <<"{", "Offset">>, <<>>}

InitBody ==
    /\ InitWebsocket /\ InitSpeech /\ InitFrames /\ InitEnc /\ InitLocks
    /\ p_value = [kind |-> "none", fields |-> {}] /\ p_result = "none"
    /\ b_body \in Bodies /\ b_http = "none" /\ b_stream = "none"

\* The closure recognize maps over the response body: None for an empty body;
\* either "?" returns the error.
RecognizeBody(body) ==
    IF body = <<>> THEN "None"
    ELSE IF JsonValue(body).kind = "invalid" THEN "Err"
    ELSE from_json_value(JsonValue(body))

\* The text frame the service wraps the body in.
PhraseFrame(body) == <<"Path", ":", "speech.phrase", CRLF, CRLF>> \o body

\* What a speech.phrase frame with this body sends: the variant of its event.
StreamBody(body) ==
    LET r == parse_server_message_text(PhraseFrame(body))
    IN IF r.panic \/ r.events = <<>> THEN "panic"
       ELSE from_json_value(JsonValue(r.events[1].body))

Recognize ==
    /\ b_http = "none"
    /\ b_http' = RecognizeBody(b_body)
    /\ UNCHANGED <<wsVars, speechVars, lastText, sentLog, delivered, p_value, p_result,
                   b_body, b_stream, encVars, lockVars>>

OnPhraseFrame ==
    /\ b_stream = "none"
    /\ b_stream' = StreamBody(b_body)
    /\ UNCHANGED <<wsVars, speechVars, lastText, sentLog, delivered, p_value, p_result,
                   b_body, b_http, encVars, lockVars>>

NextBody == Recognize \/ OnPhraseFrame

SpecBody == InitBody /\ [][NextBody]_vars

\* ------------------------------------------------------------------------
\* The binary message of Websocket::audio. Texts here are sequences of bytes.

\* The pieces of the format string of the header, and what it is given.
PathAudio == <<80, 97, 116, 104, 58, 32, 97, 117, 100, 105, 111, 13, 10>>
XRequestId == <<88, 45, 82, 101, 113, 117, 101, 115, 116, 73, 100, 58, 32>>
XTimestamp == <<13, 10, 88, 45, 84, 105, 109, 101, 115, 116, 97, 109, 112, 58, 32>>
ContentTypeWav == <<13, 10, 67, 111, 110, 116, 101, 110, 116, 45, 84, 121, 112, 101, 58, 32, 97, 117, 100, 105, 111, 47, 120, 45, 119, 97, 118, 13, 10, 13, 10>>

\* generate_uuid(): 32 hexadecimal digits.
Uuids == { <<48, 102, 56, 102, 97, 100, 53, 98, 100, 57, 99, 98, 52, 54, 57, 102, 97, 49, 54, 53, 55, 48, 56, 54, 55, 55, 50, 56, 57, 53, 48, 101>>,
           <<55, 99, 57, 101, 54, 54, 55, 57, 55, 52, 50, 53, 52, 48, 100, 101, 57, 52, 52, 98, 101, 48, 55, 102, 99, 49, 102, 57, 48, 97, 101, 55>> }

\* Local::now().to_rfc3339(): seconds with no, 3, 6 or 9 digits of fraction.
Timestamps == { <<50, 48, 49, 56, 45, 48, 49, 45, 50, 54, 84, 49, 56, 58, 51, 48, 58, 48, 57, 43, 48, 56, 58, 48, 48>>,
                <<50, 48, 49, 56, 45, 48, 49, 45, 50, 54, 84, 49, 56, 58, 51, 48, 58, 48, 57, 46, 52, 53, 51, 43, 48, 56, 58, 48, 48>>,
                <<50, 48, 49, 56, 45, 48, 49, 45, 50, 54, 84, 49, 56, 58, 51, 48, 58, 48, 57, 46, 52, 53, 51, 56, 50, 57, 43, 48, 56, 58, 48, 48>>,
                <<50, 48, 49, 56, 45, 48, 49, 45, 50, 54, 84, 49, 56, 58, 51, 48, 58, 48, 57, 46, 52, 53, 51, 56, 50, 57, 49, 50, 51, 43, 48, 56, 58, 48, 48>> }

MaxAudio == 2

\* The audio of a call: up to MaxAudio bytes.
AudioBytes == {0, 10, 255}
Audios == UNION {[1..n -> AudioBytes] : n \in 0..MaxAudio}

\* format!("Path: {}\r\nX-RequestId: {}\r\nX-Timestamp: {}\r\nContent-Type: {}\r\n\r\n", ...).
AudioText(uuid, now) == PathAudio \o XRequestId \o uuid \o XTimestamp \o now \o ContentTypeWav

\* text.len() as u16.
HeaderLen(text) == Len(text) % 65536

\* A first byte that is the low byte.
LowByteFirst(header_len) == header_len % 256

\* ((header_len >> 8) & 0xFF) as u8.
S1(header_len) == (header_len \div 256) % 256

\* (header_len & 0xFF) as u8.
S2(header_len) == header_len % 256

\* The Vec the message is made of: two pushes and two extend_from_slice.
AudioData(uuid, now, audio) ==
    <<S1(HeaderLen(AudioText(uuid, now))), S2(HeaderLen(AudioText(uuid, now)))>>
        \o AudioText(uuid, now) \o audio

InitAudio ==
    /\ InitWebsocket /\ InitSpeech /\ InitFrames /\ InitPhrase /\ InitLocks
    /\ a_in \in [uuid : Uuids, now : Timestamps, audio : Audios] /\ a_frame = <<>>
    /\ u_in = [mode |-> [variant |-> "none", language |-> "none"], format |-> "none",
               is_custom_speech |-> FALSE, endpoint_id |-> "none"]
    /\ u_built = <<>> /\ u_uri = <<>>

\* audio() with a sender: the binary message handed to sender.send.
AudioMessage ==
    /\ a_frame = <<>>
    /\ a_frame' = AudioData(a_in.uuid, a_in.now, a_in.audio)
    /\ UNCHANGED <<wsVars, speechVars, lastText, sentLog, delivered, p_value, p_result,
                   b_body, b_http, b_stream, a_in, u_in, u_built, u_uri, lockVars>>

NextAudio == AudioMessage

SpecAudio == InitAudio /\ [][NextAudio]_vars

\* ------------------------------------------------------------------------
\* The connection URL. A text here is a sequence of tokens: the pieces of the
\* format strings and what they are given.

\* The modes: Interactive and Dictation take an InteractiveDictationLanguage,
\* Conversation a ConversationLanguage.
Modes ==
    {[variant |-> v, language |-> [enum |-> "InteractiveDictationLanguage", name |-> l]] :
        v \in {"Interactive", "Dictation"}, l \in {"EnglishUnitedStates", "FrenchCanada"}}
    \cup {[variant |-> "Conversation",
           language |-> [enum |-> "ConversationLanguage", name |-> l]] :
        l \in {"EnglishUnitedStates", "ChineseChina"}}

Formats == {"Simple", "Detailed"}

EndpointIds == {"", "ep1"}

\* A Display for Mode that writes "interactive" for every mode.
AllInteractive(mode) == "interactive"

\* impl Display for Mode.
ModeText(mode) ==
    CASE mode.variant = "Interactive" -> "interactive"
      [] mode.variant = "Conversation" -> "conversation"
      [] mode.variant = "Dictation" -> "dictation"

\* impl Display for Format.
FormatText(format) ==
    CASE format = "Detailed" -> "detailed"
      [] format = "Simple" -> "simple"

\* impl Display for InteractiveDictationLanguage and for ConversationLanguage.
LanguageText(language) ==
    CASE language.enum = "InteractiveDictationLanguage" /\ language.name = "EnglishUnitedStates"
              -> "en-US"
      [] language.enum = "InteractiveDictationLanguage" /\ language.name = "FrenchCanada"
              -> "fr-CA"
      [] language.enum = "ConversationLanguage" /\ language.name = "EnglishUnitedStates"
              -> "en-US"
      [] language.enum = "ConversationLanguage" /\ language.name = "ChineseChina"
              -> "zh-CN"

\* The two format strings of Websocket::build_url, lines 166-181.
UrlText(mode, format, is_custom_speech, endpoint_id) ==
    IF is_custom_speech
    THEN <<"wss://", "westus.stt.speech.microsoft.com", "/speech/recognition/",
           ModeText(mode), "/cognitiveservices/v1", "?", "cid=", endpoint_id, "&",
           "language=", LanguageText(mode.language), "&", "format=", FormatText(format)>>
    ELSE <<"wss://", "speech.platform.bing.com", "/speech/recognition/",
           ModeText(mode), "/cognitiveservices/v1", "?",
           "language=", LanguageText(mode.language), "&", "format=", FormatText(format)>>

\* The two format strings of Speech::websocket, lines 102-117, with the
\* fields of the Speech.
WebsocketUriText(mode, format, is_custom_speech, endpoint_id) ==
    IF is_custom_speech
    THEN <<"wss://", "westus.stt.speech.microsoft.com", "/speech/recognition/",
           ModeText(mode), "/cognitiveservices/v1", "?", "cid=", endpoint_id, "&",
           "language=", LanguageText(mode.language), "&", "format=", FormatText(format)>>
    ELSE <<"wss://", "speech.platform.bing.com", "/speech/recognition/",
           ModeText(mode), "/cognitiveservices/v1", "?",
           "language=", LanguageText(mode.language), "&", "format=", FormatText(format)>>

\* uri.parse::<Url>(): scheme, host, path and query of the text.
UrlParse(text) ==
    [scheme |-> text[1], host |-> text[2],
     path |-> SubSeq(Split(text, <<"?">>)[1], 3, Len(Split(text, <<"?">>)[1])),
     query |-> SubSeq(text, Len(Split(text, <<"?">>)[1]) + 2, Len(text))]

\* The text of a Url.
UrlString(url) == <<url.scheme, url.host>> \o url.path \o <<"?">> \o url.query

\* Websocket::build_url.
build_url(mode, format, is_custom_speech, endpoint_id) ==
    UrlParse(UrlText(mode, format, is_custom_speech, endpoint_id))

InitUrl ==
    /\ InitWebsocket /\ InitSpeech /\ InitFrames /\ InitPhrase /\ InitLocks
    /\ a_in = [uuid |-> <<>>, now |-> <<>>, audio |-> <<>>] /\ a_frame = <<>>
    /\ u_in \in [mode : Modes, format : Formats, is_custom_speech : BOOLEAN,
                 endpoint_id : EndpointIds]
    /\ u_built = <<>> /\ u_uri = <<>>

\* Websocket::open builds the url of the connection.
BuildUrl ==
    /\ u_built = <<>>
    /\ u_built' = UrlString(build_url(u_in.mode, u_in.format, u_in.is_custom_speech,
                                      u_in.endpoint_id))
    /\ UNCHANGED <<wsVars, speechVars, lastText, sentLog, delivered, p_value, p_result,
                   b_body, b_http, b_stream, a_in, a_frame, u_in, u_uri, lockVars>>

\* Speech::websocket, lines 98-117: the uri handed to ws::connect.
WebsocketUri ==
    /\ u_uri = <<>>
    /\ u_uri' = WebsocketUriText(u_in.mode, u_in.format, u_in.is_custom_speech,
                                 u_in.endpoint_id)
    /\ UNCHANGED <<wsVars, speechVars, lastText, sentLog, delivered, p_value, p_result,
                   b_body, b_http, b_stream, a_in, a_frame, u_in, u_built, lockVars>>

NextUrl == BuildUrl \/ WebsocketUri

SpecUrl == InitUrl /\ [][NextUrl]_vars

\* ------------------------------------------------------------------------
\* The Mutexes. A thread is between the steps below while it waits for a lock
\* or while the call it made (a send on the transport, a callback) runs.

\* Mutex::lock() returns once no other guard of the Mutex exists.
AlwaysFree(m) == TRUE

Free(m) == l_held[m] = NoThread

\* Guards that are never dropped.
KeepGuards(t) == l_held' = l_held

\* The guards of thread t go out of scope.
Release(t) == l_held' = [m \in Mutexes |-> IF l_held[m] = t THEN NoThread ELSE l_held[m]]

At(t, op, step) == l_at[t] = [op |-> op, step |-> step]

Goto(t, op, step) == l_at' = [l_at EXCEPT ![t] = [op |-> op, step |-> step]]

\* config(), audio() and close() begin with self.sender.lock(), and so does
\* open() after it replaced its channel. With a sender config() and close() go
\* on to their send (sender.send, sender.shutdown), audio() first locks the
\* correlation id, and open() returns; with none open() goes on.
CallerLock(t, op) ==
    /\ l_at[t] = Idle
    /\ Free(SenderMutex)
    /\ l_held' = [l_held EXCEPT ![SenderMutex] = t]
    /\ Goto(t, op, IF op = "open" THEN (IF l_sender THEN "none" ELSE "checked")
                   ELSE IF ~l_sender THEN "none"
                   ELSE IF op = "audio" THEN "locked" ELSE "send")
    /\ UNCHANGED <<l_sender, l_uuid>>

\* open(), lines 69-80: the guard of the check is dropped; WebSocket::new.
OpenUnlock(t) ==
    /\ At(t, "open", "checked")
    /\ Release(t)
    /\ Goto(t, "open", "made")
    /\ UNCHANGED <<l_sender, l_uuid>>

\* MyFactory::connection_made, called from ws.connect: self.sender.lock().
FactoryLock(t) ==
    /\ At(t, "open", "made")
    /\ Free(SenderMutex)
    /\ l_held' = [l_held EXCEPT ![SenderMutex] = t]
    /\ Goto(t, "open", "store")
    /\ UNCHANGED <<l_sender, l_uuid>>

\* *sender_guard = Some(sender); the guard is dropped, run() and the return.
FactoryStore(t) ==
    /\ At(t, "open", "store")
    /\ l_sender' = TRUE
    /\ Release(t)
    /\ l_at' = [l_at EXCEPT ![t] = Idle]
    /\ UNCHANGED l_uuid

\* audio(): self.audio_uuid.lock().unwrap(), the guard kept to the end of the call.
AudioLockUuid(t) ==
    /\ At(t, "audio", "locked")
    /\ Free(UuidMutex)
    /\ l_held' = [l_held EXCEPT ![UuidMutex] = t]
    /\ Goto(t, "audio", "uuid")
    /\ UNCHANGED <<l_sender, l_uuid>>

\* audio(): the id is read, and minted and stored if absent; then the frame is
\* built and sender.send(msg) begins.
AudioTakeUuid(t) ==
    /\ At(t, "audio", "uuid")
    /\ l_uuid' = TRUE
    /\ Goto(t, "audio", "send")
    /\ UNCHANGED <<l_held, l_sender>>

\* config() and audio() return: the send is over, or there was no sender;
\* open() returns early.
CallerReturn(t) ==
    /\ l_at[t].op \in {"config", "audio", "open"} /\ l_at[t].step \in {"send", "none"}
    /\ Release(t)
    /\ l_at' = [l_at EXCEPT ![t] = Idle]
    /\ UNCHANGED <<l_sender, l_uuid>>

\* close(): sender.shutdown() is over (Ok or Err) or there was no sender; the
\* guard is dropped and the connection thread joined.
CloseUnlock(t, isOk) ==
    /\ l_at[t].op = "close" /\ l_at[t].step \in {"send", "none"}
    /\ isOk => l_at[t].step = "send"
    /\ Release(t)
    /\ l_at' = [l_at EXCEPT ![t] = IF isOk THEN [op |-> "close", step |-> "joined"] ELSE Idle]
    /\ UNCHANGED <<l_sender, l_uuid>>

\* close(), ok: self.sender.lock() again.
CloseRelock(t) ==
    /\ At(t, "close", "joined")
    /\ Free(SenderMutex)
    /\ l_held' = [l_held EXCEPT ![SenderMutex] = t]
    /\ Goto(t, "close", "clear")
    /\ UNCHANGED <<l_sender, l_uuid>>

\* close(), ok: *sender_guard = None.
CloseClear(t) ==
    /\ At(t, "close", "clear")
    /\ l_sender' = FALSE
    /\ Release(t)
    /\ l_at' = [l_at EXCEPT ![t] = Idle]
    /\ UNCHANGED l_uuid

\* The reset worker, on a TurnEnd event: audio_uuid_1.lock().unwrap() ...
ResetLock ==
    /\ l_at[ResetThread] = Idle
    /\ Free(UuidMutex)
    /\ l_held' = [l_held EXCEPT ![UuidMutex] = ResetThread]
    /\ Goto(ResetThread, "reset", "write")
    /\ UNCHANGED <<l_sender, l_uuid>>

\* ... = None, and the guard is dropped at the end of the statement.
ResetWrite ==
    /\ At(ResetThread, "reset", "write")
    /\ l_uuid' = FALSE
    /\ Release(ResetThread)
    /\ l_at' = [l_at EXCEPT ![ResetThread] = Idle]
    /\ UNCHANGED l_sender

\* Speech::websocket, line 146: Protocol::config(&sender, &cfg) begins.
MainConfig(s) ==
    /\ At(Main(s), "websocket", "start")
    /\ Goto(Main(s), "config", "send")
    /\ UNCHANGED <<l_held, l_sender, l_uuid>>

\* Lines 146-210: the config send is over; t1 and _t2 are spawned.
MainSpawn(s) ==
    /\ At(Main(s), "config", "send")
    /\ l_at' = [l_at EXCEPT ![Main(s)] = [op |-> "websocket", step |-> "returned"],
                            ![T1Thread(s)] = Idle, ![T2Thread(s)] = Idle]
    /\ UNCHANGED <<l_held, l_sender, l_uuid>>

\* t1 on ClientEvent::Audio: protocol_t1.lock().unwrap(), then protocol.audio
\* sends on the transport.
T1LockProtocol(s) ==
    /\ l_at[T1Thread(s)] = Idle
    /\ Free(ProtocolMutex(s))
    /\ l_held' = [l_held EXCEPT ![ProtocolMutex(s)] = T1Thread(s)]
    /\ Goto(T1Thread(s), "audio", "send")
    /\ UNCHANGED <<l_sender, l_uuid>>

\* The send is over (Ok or Err, logged); the guard goes out of scope.
T1Release(s) ==
    /\ At(T1Thread(s), "audio", "send")
    /\ Release(T1Thread(s))
    /\ l_at' = [l_at EXCEPT ![T1Thread(s)] = Idle]
    /\ UNCHANGED <<l_sender, l_uuid>>

\* The events _t2 receives: one of those with a callback, and one without.
DispatchEvents == {"SpeechPhrase", "Disconnect"}

\* _t2 on an event: handler.lock().unwrap() ...
T2LockHandler(s, ev) ==
    /\ l_at[T2Thread(s)] = Idle
    /\ Free(HandlerMutex)
    /\ l_held' = [l_held EXCEPT ![HandlerMutex] = T2Thread(s)]
    /\ Goto(T2Thread(s), ev, "handler")
    /\ UNCHANGED <<l_sender, l_uuid>>

\* ... protocol_t2.lock().unwrap(), then the match: protocol.on_X() runs.
T2LockProtocol(s) ==
    /\ l_at[T2Thread(s)].step = "handler"
    /\ Free(ProtocolMutex(s))
    /\ l_held' = [l_held EXCEPT ![ProtocolMutex(s)] = T2Thread(s)]
    /\ Goto(T2Thread(s), l_at[T2Thread(s)].op, "protocol")
    /\ UNCHANGED <<l_sender, l_uuid>>

\* protocol.on_X() returned; handler.on_X() runs.
T2Call(s) ==
    /\ l_at[T2Thread(s)].step = "protocol"
    /\ l_at[T2Thread(s)].op \in Callbacks
    /\ Goto(T2Thread(s), l_at[T2Thread(s)].op, "callback")
    /\ UNCHANGED <<l_held, l_sender, l_uuid>>

\* The callback returned, or the event has none; both guards go out of scope.
T2Release(s) ==
    /\ \/ l_at[T2Thread(s)].step = "callback"
       \/ (l_at[T2Thread(s)].step = "protocol" /\ l_at[T2Thread(s)].op \notin Callbacks)
    /\ Release(T2Thread(s))
    /\ l_at' = [l_at EXCEPT ![T2Thread(s)] = Idle]
    /\ UNCHANGED <<l_sender, l_uuid>>

\* What a step of a thread leaves alone.
NoLockVars == <<wsVars, speechVars, lastText, sentLog, delivered, p_value, p_result,
                b_body, b_http, b_stream, encVars>>

NextLocks ==
    \/ (\E t \in Callers, op \in {"config", "audio", "close", "open"} :
            CallerLock(t, op) /\ UNCHANGED NoLockVars)
    \/ (\E t \in Callers : OpenUnlock(t) /\ UNCHANGED NoLockVars)
    \/ (\E t \in Callers : FactoryLock(t) /\ UNCHANGED NoLockVars)
    \/ (\E t \in Callers : FactoryStore(t) /\ UNCHANGED NoLockVars)
    \/ (\E t \in Callers : AudioLockUuid(t) /\ UNCHANGED NoLockVars)
    \/ (\E t \in Callers : AudioTakeUuid(t) /\ UNCHANGED NoLockVars)
    \/ (\E t \in Callers : CallerReturn(t) /\ UNCHANGED NoLockVars)
    \/ (\E t \in Callers, isOk \in BOOLEAN : CloseUnlock(t, isOk) /\ UNCHANGED NoLockVars)
    \/ (\E t \in Callers : CloseRelock(t) /\ UNCHANGED NoLockVars)
    \/ (\E t \in Callers : CloseClear(t) /\ UNCHANGED NoLockVars)
    \/ (ResetLock /\ UNCHANGED NoLockVars)
    \/ (ResetWrite /\ UNCHANGED NoLockVars)
    \/ (\E s \in Sessions : MainConfig(s) /\ UNCHANGED NoLockVars)
    \/ (\E s \in Sessions : MainSpawn(s) /\ UNCHANGED NoLockVars)
    \/ (\E s \in Sessions : T1LockProtocol(s) /\ UNCHANGED NoLockVars)
    \/ (\E s \in Sessions : T1Release(s) /\ UNCHANGED NoLockVars)
    \/ (\E s \in Sessions, ev \in DispatchEvents : T2LockHandler(s, ev) /\ UNCHANGED NoLockVars)
    \/ (\E s \in Sessions : T2LockProtocol(s) /\ UNCHANGED NoLockVars)
    \/ (\E s \in Sessions : T2Call(s) /\ UNCHANGED NoLockVars)
    \/ (\E s \in Sessions : T2Release(s) /\ UNCHANGED NoLockVars)

SpecLocks == Init /\ [][NextLocks]_vars

\* ------------------------------------------------------------------------
\* Properties of Websocket.

\* The step is an audio() call whose frame the transport accepted.
FrameSent == Len(wire') = Len(wire) + 1

\* The frame such a step puts on the wire.
NewFrame == wire'[Len(wire')]

\* C1: once a turn.end frame was received after the audio frames sent so far
\* and its TurnEnd event was taken by the consumer of the caller's channel,
\* the next audio frame carries an X-RequestId that none of those frames carries.
C1_FreshIdAfterTurnEnd ==
    [][(FrameSent /\ turnEndTaken) => \A i \in 1..Len(wire) : wire[i].id # NewFrame.id]_vars

\* C2: two consecutive audio frames of one connection, with no TurnEnd event
\* received by the reset worker between them, carry the same X-RequestId.
C2_SameIdWithinTurn ==
    [][(FrameSent /\ wire # <<>> /\ wire[Len(wire)].conn = NewFrame.conn /\ ~resetDone)
          => NewFrame.id = wire[Len(wire)].id]_vars

\* C2 happens: two frames of one connection with one id are on the wire.
C2_Witness ==
    /\ Len(wire) >= 2
    /\ wire[1].conn = wire[2].conn
    /\ wire[1].id = wire[2].id

\* C3: the first audio frame on a new connection carries an X-RequestId that
\* no frame of an earlier connection carries.
C3_FreshIdOnNewConnection ==
    [][(FrameSent /\ \A i \in 1..Len(wire) : wire[i].conn # NewFrame.conn)
          => \A i \in 1..Len(wire) : wire[i].id # NewFrame.id]_vars

\* C4: audio() called with no sender present returns an error.
C4_AudioWithoutSenderFails ==
    (last.op = "audio" /\ sender = 0) => last.res = "Err"

\* C5: open() does not panic, and when the connection it queued fails before
\* the handshake completes the caller has an error result and the reset
\* worker spawned for that connection is not left running.
C5_OpenFailureReported ==
    /\ last.op = "open" => last.res # "panic"
    /\ \A k \in Conns : tstate[k] = "failed" =>
          /\ last.op = "open" => last.res = "Err"
          /\ ~worker[HandlerChan(k)]

\* The step is a close() called right after a close() that returned.
SecondClose == last.op = "close" /\ last.res = "unit" /\ ~last.again /\ last'.again

C8_NoWorkerAfterClose ==
    (last.op = "close" /\ last.res = "unit") =>
        /\ \A k \in Conns : ~Alive(k)
        /\ \A c \in Chans : ~worker[c]

\* C9: when close() has returned, the sender is None.
C9_SenderClearedByClose ==
    (last.op = "close" /\ last.res = "unit") => sender = 0

C6_ConfigBeforeAudio ==
    /\ \A i \in 1..Len(s_wire) : (s_wire[i].frame = "config") <=> (i = 1)
    /\ (send_thread # "none" \/ s_pc \in {"returned", "dropped"}) => s_wire # <<>>

\* C6 happens: the outbound worker sent an audio frame.
C6_Witness ==
    /\ Len(s_wire) >= 2
    /\ s_wire[2].frame = "audio"

\* The events that have no callback, by the claim.
NoCallback == {"Connect", "Disconnect", "Unknown"}

\* The callbacks of a sequence of events: one for each event outside
\* NoCallback, named after it and given its payload.
CallsOf(es) ==
    LET kept == SelectSeq(es, LAMBDA e : e.ev \notin NoCallback)
    IN [i \in 1..Len(kept) |-> [cb |-> kept[i].ev, arg |-> kept[i].n]]

Attempted(id) == \E k \in 1..Len(attempts) : attempts[k].id = id

\* The event with this number is an Audio sent before any Disconnect.
AudioBeforeDisconnect(id) == \A j \in 1..id : enq[j].ev = "Audio"

\* C14: every Audio enqueued before the Disconnect is attempted before the
\* outbound worker exits: once it has exited, protocol.audio was called for
\* each of them.
C14_PendingAudioAttempted ==
    send_thread = "done"
        => \A id \in 1..Len(enq) : AudioBeforeDisconnect(id) => Attempted(id)

\* The worker exited on a Disconnect that was sent after two Audio events, and
\* both were attempted.
C14_Witness ==
    /\ send_thread = "done"
    /\ Len(enq) = 3 /\ enq[3].ev = "Disconnect"
    /\ Attempted(1) /\ Attempted(2)

\* C15: the outbound worker sends the frames in the order they were enqueued:
\* the audio frames handed to the transport are those of the attempts that
\* returned Ok, and the numbers of their events grow along the wire.
C15_FramesInEnqueueOrder ==
    /\ \A i, j \in 2..Len(s_wire) : i < j => s_wire[i].id < s_wire[j].id
    /\ \A i \in 2..Len(s_wire) : s_wire[i].frame = "audio" /\ enq[s_wire[i].id].ev = "Audio"
    /\ Len(SelectSeq(s_wire, LAMBDA f : f.frame = "audio"))
          = Len(SelectSeq(attempts, LAMBDA a : a.res = "Ok"))

\* Three audio frames were sent.
C15_Witness ==
    /\ Len(s_wire) = 4
    /\ s_wire[2].id = 1 /\ s_wire[3].id = 2 /\ s_wire[4].id = 3

\* The number of the first Disconnect sent through send_tx is below id.
DisconnectBefore(id) == \E j \in 1..(id - 1) : enq[j].ev = "Disconnect"

\* t1 takes a Disconnect from the channel in this step.
TakesDisconnect ==
    /\ send_thread = "running" /\ send_rx # <<>>
    /\ Head(send_rx).ev = "Disconnect"
    /\ send_rx' = Tail(send_rx)

\* C16: once the outbound worker takes a Disconnect it has ended; no Audio
\* enqueued after the Disconnect is attempted or sent; and a Disconnect in the
\* channel leads to the worker's exit.
C16_DisconnectEndsWorker ==
    /\ [][TakesDisconnect => send_thread' = "done"]_vars
    /\ [](\A k \in 1..Len(attempts) : ~DisconnectBefore(attempts[k].id))
    /\ [](\A i \in 2..Len(s_wire) : ~DisconnectBefore(s_wire[i].id))
    /\ ((\E i \in 1..Len(send_rx) : send_rx[i].ev = "Disconnect") ~> (send_thread = "done"))

\* The worker has ended; an Audio was enqueued after the Disconnect, and the
\* Audio before it was sent.
C16_Witness ==
    /\ send_thread = "done"
    /\ Len(enq) = 3 /\ enq[1].ev = "Audio" /\ enq[2].ev = "Disconnect" /\ enq[3].ev = "Audio"
    /\ Len(s_wire) = 2 /\ s_wire[2].id = 1
    /\ Len(send_rx) = 1

\* C17: a failed send of an audio frame does not end the outbound worker: after
\* the turn in which protocol.audio returned Err the worker is running.
C17_WorkerSurvivesFailedSend ==
    [][(Len(attempts') = Len(attempts) + 1 /\ attempts'[Len(attempts')].res = "Err")
          => send_thread' = "running"]_vars

\* A send failed and the worker sent the next Audio.
C17_Witness ==
    /\ Len(attempts) = 2
    /\ attempts[1].res = "Err" /\ attempts[2].res = "Ok"
    /\ Len(s_wire) = 2 /\ s_wire[2].id = attempts[2].id

\* ------------------------------------------------------------------------
\* Properties of Phrase::from_json_value.

\* The call returned for an object whose RecognitionStatus is the string st.
Returned(st) == p_result # "none" /\ p_value.kind = "object" /\ st \in p_value.fields

\* C19: an object whose RecognitionStatus is a string gives Simple for Success
\* with DisplayText, Detailed for Success without DisplayText, Silence for
\* InitialSilenceTimeout and Unknown for every other status.
C19_Classification ==
    /\ Returned("RS=Success") =>
          p_result = IF "DisplayText" \in p_value.fields THEN "Simple" ELSE "Detailed"
    /\ Returned("RS=InitialSilenceTimeout") => p_result = "Silence"
    /\ Returned("RS=Error") => p_result = "Unknown"

\* C19 as amended: the variant is the one of C19 when the object has the fields
\* of that variant's struct, and the result is an error when it lacks one.
C19_ClassificationOfComplete ==
    /\ Returned("RS=Success") /\ "DisplayText" \in p_value.fields =>
          p_result = IF {"Offset", "Duration"} \subseteq p_value.fields
                     THEN "Simple" ELSE "Err"
    /\ Returned("RS=Success") /\ "DisplayText" \notin p_value.fields =>
          p_result = IF {"Offset", "Duration", "NBest"} \subseteq p_value.fields
                     THEN "Detailed" ELSE "Err"
    /\ Returned("RS=InitialSilenceTimeout") =>
          p_result = IF {"Offset", "Duration"} \subseteq p_value.fields
                     THEN "Silence" ELSE "Err"
    /\ Returned("RS=Error") => p_result = "Unknown"

\* C19 happens: an object with Success and no DisplayText came out Detailed.
C19_Witness ==
    /\ Returned("RS=Success") /\ "DisplayText" \notin p_value.fields
    /\ p_result = "Detailed"

\* ------------------------------------------------------------------------
\* Properties of the two readers of a phrase body.

Variants == {"Simple", "Detailed", "Silence", "Unknown"}

\* C20: the same phrase body yields the same Phrase variant on the HTTP path
\* and on the streaming path: once both have read the body, a variant one of
\* them produced is the variant the other produced.
C20_SameVariantOnBothPaths ==
    (b_http # "none" /\ b_stream # "none" /\ (b_http \in Variants \/ b_stream \in Variants))
        => b_http = b_stream

\* ------------------------------------------------------------------------
\* Properties of the text frames of a connection.

\* A text frame was received last.
TextReceived == lastText.n > 0 /\ lastText.kind = "text"

\* The events the frame received last sent to the caller's channel.
LastEvents == SelectSeq(sentLog, LAMBDA e : e.frame = lastText.n)

\* C11: the consumer is handed the server events in the order their frames
\* were received, each as it was sent: what it has taken so far, followed by
\* what waits in the channel, is the sequence of events sent, and the frame
\* numbers of the events it has taken never decrease.
C11_EventsInFrameOrder ==
    /\ delivered \o callerQ = sentLog
    /\ \A i, j \in 1..Len(delivered) : i < j => delivered[i].frame <= delivered[j].frame

\* The consumer has taken the events of two frames, different events.
C11_Witness ==
    /\ Len(delivered) = 2
    /\ delivered[1].frame = 1 /\ delivered[2].frame = 2
    /\ delivered[1].ev # delivered[2].ev

\* The frame has a header line whose key is Path.
HasPath(f) == \E i \in 1..Len(f.hdr) : f.hdr[i].key = "Path"

\* C12: every text frame the handler has gone through produced exactly one
\* event for the consumer, and Unknown when it has no Path header.
C12_OneEventPerFrame ==
    (TextReceived /\ tstate[1] = "open")
        => /\ Len(LastEvents) = 1
           /\ ~HasPath(lastText.frame) => LastEvents[1].ev = "Unknown"

\* The table of the Path values.
PathTable(v) ==
    CASE v = <<"turn.start">> -> "TurnStart"
      [] v = <<"turn.end">> -> "TurnEnd"
      [] v = <<"speech.startDetected">> -> "SpeechStartDetected"
      [] v = <<"speech.hypothesis">> -> "SpeechHypothesis"
      [] v = <<"speech.phrase">> -> "SpeechPhrase"
      [] v = <<"speech.endDetected">> -> "SpeechEndDetected"
      [] OTHER -> "Unknown"

\* A frame with the empty line, a colon in every header line, one Path line,
\* and a body its Path value can be read with.
Routable(f) ==
    /\ f.sep
    /\ \A i \in 1..Len(f.hdr) : f.hdr[i].colon
    /\ Cardinality({i \in 1..Len(f.hdr) : f.hdr[i].key = "Path"}) = 1
    /\ \A i \in 1..Len(f.hdr) :
          /\ f.hdr[i].val = <<"speech.hypothesis">> => f.body = HypothesisBody
          /\ f.hdr[i].val = <<"speech.phrase">> => f.body = PhraseBody

\* The value of the Path line of the frame.
PathValue(f) == f.hdr[CHOOSE i \in 1..Len(f.hdr) : f.hdr[i].key = "Path"].val

\* The last frame sent the event ev, with the body where the event carries
\* one, and the connection is open.
Routed(ev) ==
    /\ Len(LastEvents) = 1
    /\ LastEvents[1].ev = ev
    /\ LastEvents[1].body = IF ev \in {"SpeechHypothesis", "SpeechPhrase"}
                            THEN lastText.frame.body ELSE <<>>
    /\ tstate[1] = "open"

\* C18, as claimed: the trimmed Path value of a frame selects the event by the
\* table, every value outside the table gives Unknown, forwarded like any other
\* event, and the connection stays open.
C18_PathValueSelectsEvent ==
    (TextReceived /\ Routable(lastText.frame))
        => Routed(PathTable(PathValue(lastText.frame)))

\* The part of a value before its first colon.
UpToColon(v) == Split(v, <<":">>)[1]

\* C18 for what the code takes as the value: the part of the Path value before
\* its first colon, trimmed, selects the event by the table, every other such
\* part gives Unknown, forwarded like any other event, and the connection
\* stays open.
C18_PathValueUpToColonSelectsEvent ==
    (TextReceived /\ Routable(lastText.frame))
        => Routed(PathTable(Trim(UpToColon(PathValue(lastText.frame)))))

\* A frame whose Path line has spaces around the key and around a value
\* outside the table came in second, and its Unknown was sent.
C18_Witness ==
    /\ lastText.n = 2
    /\ lastText.frame.hdr = <<Padded("Path", <<"bogus">>)>>
    /\ Routed("Unknown")

\* A frame with no empty line after the header, or with a header line that
\* has no colon.
MalformedHeader(f) == ~f.sep \/ \E i \in 1..Len(f.hdr) : ~f.hdr[i].colon

\* C21: a text frame with a malformed header fails the parse as an error
\* value: after it no event of that frame was sent and the transport thread
\* has not panicked, so later frames are still decoded.
C21_MalformedHeaderIsAnError ==
    (TextReceived /\ MalformedHeader(lastText.frame))
        => (LastEvents = <<>> /\ tstate[1] = "open")

\* The bodies of the frames that are no JSON text.
NotJson == {<<>>, <<"{", "Text">>}

\* A frame with a sound header and one Path line, speech.hypothesis or
\* speech.phrase, whose body is no JSON text.
UnreadableBody(f) ==
    /\ ~MalformedHeader(f)
    /\ Cardinality({i \in 1..Len(f.hdr) : f.hdr[i].key = "Path"}) = 1
    /\ PathValue(f) \in {<<"speech.hypothesis">>, <<"speech.phrase">>}
    /\ f.body \in NotJson

\* C22: a speech.hypothesis or speech.phrase frame whose body is not valid
\* JSON is skipped: after it no event of that frame was sent and the transport
\* thread has not panicked, so later frames are still delivered.
C22_UnreadableBodyIsSkipped ==
    (TextReceived /\ UnreadableBody(lastText.frame))
        => (LastEvents = <<>> /\ tstate[1] = "open")

\* on_message is called with a binary frame in this step.
BinaryStep == lastText'.n = lastText.n + 1 /\ lastText'.kind = "binary"

\* C23: a binary frame from the server is dropped: it sends no event to
\* either channel, returns no error (the thread stays as it was), and leaves
\* the correlation id and the transport handle unchanged.
C23_BinaryFrameDropped ==
    [][BinaryStep => /\ sentLog' = sentLog /\ callerQ' = callerQ /\ chan' = chan
                     /\ audio_uuid' = audio_uuid /\ sender' = sender
                     /\ tstate' = tstate]_vars

\* A binary frame came in after a text frame whose event still waits in the
\* caller's channel.
C23_Witness ==
    /\ lastText.n = 2 /\ lastText.kind = "binary"
    /\ Len(callerQ) = 1 /\ callerQ[1].frame = 1
    /\ tstate[1] = "open"

\* ------------------------------------------------------------------------
\* Properties of the audio message.

\* The two bytes at the head of the message, read as a big-endian integer.
Prefix == a_frame[1] * 256 + a_frame[2]

\* C24: the binary message of an audio() call is laid out as: the high byte
\* and the low byte of the length of the header text, the header text, the
\* whole audio; the first two bytes read as a big-endian integer give the
\* header length, and the message is 2 + header length + audio length long.
C24_AudioFrameLayout ==
    a_frame # <<>>
        => LET text == AudioText(a_in.uuid, a_in.now)
           IN /\ Len(text) < 65536
              /\ a_frame[1] = Len(text) \div 256 /\ a_frame[2] = Len(text) % 256
              /\ Prefix = Len(text)
              /\ SubSeq(a_frame, 3, 2 + Prefix) = text
              /\ SubSeq(a_frame, 3 + Prefix, Len(a_frame)) = a_in.audio
              /\ Len(a_frame) = 2 + Len(text) + Len(a_in.audio)

\* The message of a call with two bytes of audio and the longest time stamp.
C24_Witness ==
    /\ a_frame # <<>>
    /\ Len(a_in.audio) = 2 /\ Len(a_in.now) = 35
    /\ Prefix = 139 /\ Len(a_frame) = 143

\* ------------------------------------------------------------------------
\* Properties of the connection URL.

\* The URL the claim describes for the inputs.
ClaimedUrl ==
    LET segment == [Interactive |-> "interactive", Conversation |-> "conversation",
                    Dictation |-> "dictation"][u_in.mode.variant]
        locale == [EnglishUnitedStates |-> "en-US", FrenchCanada |-> "fr-CA",
                   ChineseChina |-> "zh-CN"][u_in.mode.language.name]
        format == [Simple |-> "simple", Detailed |-> "detailed"][u_in.format]
        host == IF u_in.is_custom_speech THEN "westus.stt.speech.microsoft.com"
                ELSE "speech.platform.bing.com"
        cid == IF u_in.is_custom_speech THEN <<"cid=", u_in.endpoint_id, "&">> ELSE <<>>
    IN <<"wss://", host, "/speech/recognition/", segment, "/cognitiveservices/v1", "?">>
           \o cid \o <<"language=", locale, "&", "format=", format>>

\* C27: the connection URL is the function of mode, language, format,
\* custom-speech flag and endpoint id the claim describes, and
\* Websocket::build_url and Speech::websocket build the same one.
C27_UrlOfInputs ==
    /\ u_built # <<>> => u_built = ClaimedUrl
    /\ u_uri # <<>> => u_uri = ClaimedUrl
    /\ (u_built # <<>> /\ u_uri # <<>>) => u_built = u_uri

\* Both built the URL of dictation in Canadian French, detailed, with custom
\* speech.
C27_Witness ==
    /\ u_in.mode.variant = "Dictation" /\ u_in.mode.language.name = "FrenchCanada"
    /\ u_in.format = "Detailed" /\ u_in.is_custom_speech /\ u_in.endpoint_id = "ep1"
    /\ u_built # <<>> /\ u_uri = u_built
    /\ u_uri[4] = "dictation" /\ u_uri[8] = "ep1" /\ u_uri[11] = "fr-CA"

\* ------------------------------------------------------------------------
\* Properties of the reset worker.

\* The step takes a TurnEnd event from the head of handler channel c.
TakesTurnEnd(c) ==
    /\ chan[c] # <<>> /\ Head(chan[c]) = "TurnEnd"
    /\ chan'[c] = Tail(chan[c])

\* C28: the correlation id is cleared exactly once for each TurnEnd event
\* received. A step that takes a TurnEnd event from a handler channel leaves
\* the id absent; a step that clears a present id takes one TurnEnd event from
\* one handler channel, and nothing else from any; an event leaves a handler
\* channel only from its head, one at a time, and new ones join at its back;
\* and under fair scheduling of the worker a handler channel either has its
\* head taken again and again or stays empty from some time on, so that every
\* TurnEnd event in it is taken in its turn.
C28_OneResetPerTurnEnd ==
    /\ [][\A c \in Chans : TakesTurnEnd(c) => audio_uuid' = 0]_vars
    /\ [][(audio_uuid # 0 /\ audio_uuid' = 0) =>
            \E c \in Chans : /\ TakesTurnEnd(c)
                              /\ \A d \in Chans \ {c} : chan'[d] = chan[d]]_vars
    /\ [][\A c \in Chans : \/ chan'[c] = chan[c]
                            \/ (chan[c] # <<>> /\ chan'[c] = Tail(chan[c]))
                            \/ \E e \in {"TurnStart", "TurnEnd"} : chan'[c] = Append(chan[c], e)]_vars
    /\ \A c \in Chans :
          \/ []<><<chan[c] # <<>> /\ chan'[c] = Tail(chan[c])>>_vars
          \/ <>[](chan[c] = <<>>)

\* A correlation id is in use and a TurnEnd event waits in a handler channel.
C28_Witness ==
    audio_uuid # 0 /\ \E c \in Chans : chan[c] # <<>> /\ Head(chan[c]) = "TurnEnd"

\* ------------------------------------------------------------------------
\* Properties of the outbound worker after a transport failure.

\* C30: the outbound worker terminates on a transport failure: once the
\* transport thread has ended while the worker runs, the worker exits, also
\* when no Disconnect event is ever enqueued.
C30_WorkerEndsAfterTransportFailure ==
    (recv_thread = "done" /\ send_thread = "running") ~> (send_thread = "done")

\* The transport has ended, a send of the worker has failed, no event waits
\* and no Disconnect was ever enqueued: the worker is blocked in recv().
C30_Witness ==
    /\ recv_thread = "done" /\ send_thread = "running" /\ send_rx = <<>>
    /\ s_pc = "returned"
    /\ \E i \in 1..Len(attempts) : attempts[i].res = "Err"
    /\ \A i \in 1..Len(enq) : enq[i].ev # "Disconnect"

\* ------------------------------------------------------------------------
\* Properties of the end of the transport.

\* The step ends the thread of connection k before its handshake completed.
HandshakeFails(k) == tstate[k] = "connecting" /\ tstate'[k] = "failed"

\* C26: when the transport fails, a Disconnect event is delivered on the
\* inbound path, after the events of the frames received before. Here for the
\* handshake failure: with the caller's channel registered and its receiver
\* alive, the step in which the connection ends before its handshake completed
\* puts Disconnect at the back of the caller's channel.
C26_DisconnectOnHandshakeFailure ==
    [][\A k \in Conns : (HandshakeFails(k) /\ server_event_tx # 0 /\ rxAlive) =>
            callerQ' = Append(callerQ, "Disconnect")]_vars

\* A connection has failed before its handshake, the consumer's channel is
\* registered and alive, and holds nothing.
C26_Witness ==
    \E k \in Conns : tstate[k] = "failed" /\ server_event_tx # 0 /\ rxAlive /\ callerQ = <<>>

\* ------------------------------------------------------------------------
\* Properties of the Mutexes.

\* The Handler callbacks that are executing.
InCallback == {t \in Threads : l_at[t].step = "callback"}

\* C25: Handler callbacks are invoked by the inbound dispatch worker only and
\* never concurrently: at no time are two callbacks executing at once, and a
\* thread that executes one is a _t2 that holds the guard of the handler.
C25_CallbacksOneAtATime ==
    /\ Cardinality(InCallback) <= 1
    /\ \A t \in InCallback : t[1] = "t2" /\ l_held[HandlerMutex] = t

\* A callback of one session runs while the _t2 of another session, given the
\* same handler, is spawned and in no callback, and its t1 is in a send.
C25_Witness ==
    /\ l_at[T2Thread(1)].step = "callback"
    /\ l_at[T2Thread(2)] = Idle
    /\ l_at[T1Thread(2)].step = "send"

\* The sends in progress on the sender of the Websocket, and on the sender of
\* a session of Speech::websocket.
WebsocketSends == {t \in Callers : l_at[t].step = "send"}

SessionSends(s) == {t \in {Main(s), T1Thread(s)} : l_at[t].step = "send"}

\* The threads between their first and last access to the correlation id.
UuidAccesses ==
    {t \in Callers : l_at[t].op = "audio" /\ l_at[t].step \in {"uuid", "send"}}
    \cup {t \in {ResetThread} : l_at[t].step = "write"}

\* C29: at most one send on a transport sender is in progress at any time, the
\* sender's guard is held for the whole send, and the accesses to the
\* correlation id by audio() and by the reset worker never overlap.
C29_OneSendAtATime ==
    /\ Cardinality(WebsocketSends) <= 1
    /\ \A t \in WebsocketSends : l_held[SenderMutex] = t
    /\ \A s \in Sessions : Cardinality(SessionSends(s)) <= 1
    /\ Cardinality(UuidAccesses) <= 1

\* One caller is in the send of audio() while the other caller and the reset
\* worker are in no call and the id is present.
C29_Witness ==
    /\ At(<<"caller", 1>>, "audio", "send") /\ l_at[<<"caller", 2>>] = Idle
    /\ l_at[ResetThread] = Idle /\ l_uuid

\* ------------------------------------------------------------------------
\* Properties of the body of a text frame.

\* The text s holds the blank-line separator.
HasGap(s) == \E i \in 1..(Len(s) - 1) : s[i] = CRLF /\ s[i + 1] = CRLF

\* A frame with a sound header and one Path line, speech.hypothesis or
\* speech.phrase, whose body holds a blank-line separator and, taken whole, is
\* a JSON text of the type its Path value names.
GapBody(f) ==
    /\ ~MalformedHeader(f)
    /\ Cardinality({i \in 1..Len(f.hdr) : f.hdr[i].key = "Path"}) = 1
    /\ PathValue(f) \in {<<"speech.hypothesis">>, <<"speech.phrase">>}
    /\ HasGap(f.body)
    /\ IF PathValue(f) = <<"speech.phrase">> THEN IsPhrase(f.body) ELSE IsHypothesis(f.body)

\* C31: the body of a text frame is everything after the first blank-line
\* separator: a frame whose body holds a separator itself sends its event with
\* the whole remainder decoded as the body, and the connection stays open.
C31_BodyIsWholeRemainder ==
    (TextReceived /\ GapBody(lastText.frame))
        => Routed(PathTable(PathValue(lastText.frame)))

\* Such a frame was received last.
C31_Witness == TextReceived /\ GapBody(lastText.frame)

\* ------------------------------------------------------------------------
\* Properties of close() followed by open().

\* The step is an open() that returns, called after a close() that returned.
OpenAfterClose ==
    /\ pc = "idle" /\ last.op = "close" /\ last.res = "unit"
    /\ nchan' = nchan + 1 /\ last'.op = "open" /\ last'.res = "unit"

\* C32: from every reachable state the sequence close() then open() ends with
\* a live transport: the open() leaves a sender of a connection that is being
\* made, with its transport thread held and its reset worker started.
C32_CloseThenOpenReconnects ==
    [][OpenAfterClose =>
          /\ sender' # 0 /\ tstate'[sender'] = "connecting"
          /\ ws_thread' = sender'
          /\ handlerTx'[sender'] # 0 /\ worker'[handlerTx'[sender']]]_vars

\* close() has returned and left the sender of a connection that has ended.
C32_Witness ==
    /\ pc = "idle" /\ last.op = "close" /\ last.res = "unit"
    /\ sender # 0 /\ Ended(sender) /\ nchan < MaxOpen

\* ------------------------------------------------------------------------
\* Properties of the changes of the correlation id.

\* The step is an audio() on a live connection that finds no id, mints one
\* never used before, stores it and sends the frame under it.
MintsOnOpenConnection ==
    /\ sender # 0 /\ Alive(sender)
    /\ audio_uuid = 0 /\ audio_uuid' = nuuid + 1
    /\ wire' = Append(wire, [conn |-> sender, id |-> audio_uuid'])

\* The step is the reset worker taking a TurnEnd event and clearing the id.
ResetsOnTurnEnd == audio_uuid' = 0 /\ \E c \in Chans : TakesTurnEnd(c)

\* C33: the correlation id changes only in two ways: audio() on an open
\* connection sets it from none to a newly minted id, and a TurnEnd event sets
\* it to none; no other operation or event modifies it, and audio() never
\* replaces an id that is set.
C33_IdChangesOnlyByAudioAndTurnEnd ==
    [][audio_uuid' # audio_uuid => (MintsOnOpenConnection \/ ResetsOnTurnEnd)]_vars

\* No id is stored, and the sender is that of a connection that has ended.
C33_Witness == audio_uuid = 0 /\ sender # 0 /\ Ended(sender) /\ pc = "idle" /\ nuuid < MaxUuid

\* ------------------------------------------------------------------------
\* Properties of audio() and config() without a transport handle.

\* The step is an audio() or a config() called with no sender present.
NoSenderCall ==
    /\ sender = 0 /\ pc = "idle"
    /\ last' # last /\ last'.op \in {"audio", "config"}

\* C34: audio() and config() called while no transport handle is present
\* change nothing: no frame is sent, no correlation id is minted, and sender,
\* audio_uuid, the event channels and the threads are after the call as before.
C34_NoSenderNoChange ==
    [][NoSenderCall =>
          UNCHANGED <<ws, ws_thread, sender, server_event_tx, server_event_from_handler_tx,
                      server_event_from_handler_rx, audio_uuid, nuuid, wire, chan, callerQ,
                      rxAlive, tstate, handlerTx, worker, pc>>]_vars

\* audio() has returned from a call made with no sender, after a connection
\* was made and closed, and no id was ever minted.
C34_Witness ==
    /\ sender = 0 /\ last.op = "audio" /\ last.res = NoSenderResult
    /\ nchan > 0 /\ nuuid = 0 /\ audio_uuid = 0

\* ------------------------------------------------------------------------
\* Properties of the reset after a turn.end frame.

\* C35: after a turn.end frame is received on a connection, the stored
\* correlation id is eventually none, whatever audio() calls the caller
\* interleaves, and the reset is never lost: once the TurnEnd event of the
\* frame is in the handler channel, a state with no id stored follows under
\* fair scheduling of the reset worker, and no step takes a TurnEnd event out
\* of a handler channel without leaving the id none.
C35_TurnEndLeadsToReset ==
    /\ \A c \in Chans : (TurnEnds(chan[c]) > 0) ~> (audio_uuid = 0)
    /\ [][\A c \in Chans : TurnEnds(chan'[c]) < TurnEnds(chan[c]) => audio_uuid' = 0]_vars

\* An id is stored, a frame went out under it, and a TurnEnd event waits for
\* the reset worker while the caller is free to call audio() again.
C35_Witness ==
    /\ audio_uuid # 0 /\ wire # <<>> /\ pc = "idle"
    /\ \E c \in Chans : TurnEnds(chan[c]) > 0 /\ worker[c]

\* ------------------------------------------------------------------------
\* Properties of the order of the locks.

\* The Mutex thread t is blocked on in lock(), if it is at such a place.
Wanted(t) ==
    IF l_at[t] = [op |-> "audio", step |-> "locked"] THEN {UuidMutex}
    ELSE IF l_at[t].op \in {"close", "open"} /\ l_at[t].step \in {"joined", "made"}
    THEN {SenderMutex}
    ELSE IF t[1] = "t2" /\ l_at[t].step = "handler" THEN {ProtocolMutex(t[2])}
    ELSE {}

\* The thread t waits for, if any: the holder of the Mutex it is blocked on.
WaitsFor(t) == {l_held[m] : m \in Wanted(t)} \ {NoThread}

\* The threads reached from the set ts along at most n steps of WaitsFor.
RECURSIVE Waited(_, _)
Waited(ts, n) ==
    IF n = 0 \/ ts = {} THEN ts
    ELSE Waited(ts \cup UNION {WaitsFor(t) : t \in ts}, n - 1)

\* The Mutexes thread t holds.
Holds(t) == {m \in Mutexes : l_held[m] = t}

\* C36: no interleaving of the workers deadlocks on the locks. No thread
\* waits, along any chain of holders, for itself; the sender guard is held
\* whenever the audio_uuid guard is wanted by a caller, the handler guard
\* whenever _t2 wants the protocol guard, and nothing else is held by a thread
\* that waits; and every lock taken is released: a thread in no call, or not
\* spawned, holds no guard.
C36_NoDeadlockOnLocks ==
    /\ \A t \in Threads : t \notin Waited(WaitsFor(t), Cardinality(Threads))
    /\ \A t \in Threads :
          Wanted(t) # {} =>
             Holds(t) = IF Wanted(t) = {UuidMutex} THEN {SenderMutex}
                        ELSE IF Wanted(t) = {SenderMutex} THEN {}
                        ELSE {HandlerMutex}
    /\ \A t \in Threads :
          (l_at[t] \in {Idle, NotSpawned} \/ l_at[t].op = "websocket") => Holds(t) = {}

\* A caller in audio() holds the sender guard and waits for the audio_uuid
\* guard, which the reset worker holds; a _t2 holds the handler guard and waits
\* for the protocol guard, which its t1 holds.
C36_Witness ==
    /\ \E t \in Callers : Wanted(t) = {UuidMutex} /\ WaitsFor(t) = {ResetThread}
    /\ \E x \in Sessions : WaitsFor(T2Thread(x)) = {T1Thread(x)}

\* ------------------------------------------------------------------------
\* Properties of the two directions of Speech::websocket.

\* C39: the outbound and inbound directions are independent: while a Handler
\* callback of a session is executing, the outbound worker of the session can
\* take the protocol state and send: the Protocol's guard is free, or t1 has it.
C39_CallbackLeavesProtocolFree ==
    \A x \in Sessions :
        l_at[T2Thread(x)].step = "callback"
            => l_held[ProtocolMutex(x)] \in {NoThread, T1Thread(x)}

\* A callback is executing while the t1 of its session is at the top of its
\* loop, where an Audio event makes it lock the Protocol.
C39_Witness ==
    \E x \in Sessions : l_at[T2Thread(x)].step = "callback" /\ l_at[T1Thread(x)] = Idle

\* ------------------------------------------------------------------------
\* Properties of frames received after the caller let go of its Receiver.

\* Connection k is open, its handler channel still has its Receiver (or it has
\* none), and the caller dropped the Receiver server_event_receiver() returned.
ReceiverDropped(k) ==
    /\ tstate[k] = "open"
    /\ HandlerChan(k) = 0 \/ RxHeld(HandlerChan(k))
    /\ server_event_tx # 0 /\ ~rxAlive

\* C38: frame processing does not depend on the caller keeping its event
\* receiver: no step taken by an open connection after the caller dropped the
\* Receiver panics the transport thread.
C38_FramesSurviveDroppedReceiver ==
    [][\A k \in Conns : ReceiverDropped(k) => tstate'[k] # "panicked"]_vars

\* A frame is about to be handled on an open connection whose caller dropped
\* the Receiver.
C38_Witness == \E k \in Conns : ReceiverDropped(k)

\* ------------------------------------------------------------------------
\* Properties of the join in close().

\* close() waits in t.join() for a thread that has ended or that was sent a
\* shutdown command its event loop accepted: the join is not left waiting for
\* a thread nothing will end.
JoinCompletes == pc = "joining" => (Ended(ws_thread) \/ ShutdownQueued(ws_thread))

\* C37: close() always returns: whatever the state of the transport thread,
\* a close() that waits in the join goes on waiting or returns to its caller.
C37_CloseAlwaysReturns ==
    [][pc = "joining" => (JoinCompletes' /\ pc' \in {"joining", "idle"})]_vars

\* close() waits in the join for a transport thread that is already dead.
C37_Witness == pc = "joining" /\ Ended(ws_thread)

\* ------------------------------------------------------------------------
\* Totality of Phrase::from_json_value.

\* C40: Phrase::from_json_value is total: for every JSON value it returns
\* Ok(phrase) or Err(error) and never panics.
C40_FromJsonValueTotal == p_result # "panic"

\* It was called with an object that has no RecognitionStatus member, or one
\* whose RecognitionStatus is not a string.
C40_Witness ==
    /\ p_result # "none"
    /\ p_value.kind = "object"
    /\ p_value.fields \cap StatusMembers \subseteq {"RS=5"}

====
